---- MODULE Spec2Model ----
(***************************************************************************)
(* Model of gavriva/djson: the DynamicJSON ordered map / array container   *)
(* (src/dynamicjson.go), its path resolver and serializer, and StrMap      *)
(* (src/strmap.go).                                                        *)
(*                                                                         *)
(* The heap `docs` is the sequence of allocated *DynamicJSON objects; a    *)
(* pointer is an index into it and NilDoc is the nil pointer.  Strings     *)
(* (keys, paths, serialized text) are sequences of one-character strings,  *)
(* so that the byte-level path splitting of doOp can be followed.          *)
(***************************************************************************)
EXTENDS Integers, Sequences, FiniteSets, TLC

VARIABLES docs, sm, iters, last, panicked, calls

vars == <<docs, sm, iters, last, panicked, calls>>

(***************************************************************************)
(* Bounds of the model.                                                    *)
(***************************************************************************)
MaxDocs == 3
MaxSlots == 2
MaxIterDepth == 2
MaxCalls == 3
PadSlots == 125

(***************************************************************************)
(* Program constants.                                                      *)
(***************************************************************************)
PackMinSlots == 128
FrozenCounter == 0 - 1000

NilDoc == 0

(***************************************************************************)
(* Values stored in a slot: nil, a number, a child document, or the        *)
(* tombstone gDeletedEntry (a pointer compared by identity); and, for the  *)
(* parser and the serializer, a bool, a string, or a json.Number, which is *)
(* the text of a number.                                                   *)
(***************************************************************************)
VNil == [t |-> "nil", n |-> 0]
VInt(n) == [t |-> "int", n |-> n]
VDoc(d) == [t |-> "doc", n |-> d]
gDeletedEntry == [t |-> "del", n |-> 0]
VBool(b) == [t |-> "bool", b |-> b]
VStr(s) == [t |-> "str", s |-> s]
VNum(s) == [t |-> "num", s |-> s]

IsDoc(v) == v.t = "doc" /\ v.n # NilDoc

(***************************************************************************)
(* Strings as sequences of characters.                                     *)
(***************************************************************************)
\* the value of the byte ch; a byte without a character of its own is named
\* by its two hex digits
Byte(ch) ==
  LET chars == <<
        "/", "0", "1", "2", "3", "4", "5", "6", "7", "8", "9", "\"", "&",
        "<", ">", "\\", "a", "b", "c", "x", "\t", "\n", "\f", "\r", " ", "d",
        "k", "A", "H", "T", "e", "i", "m", "o", "p", "r", "s", "t", "v", "y",
        "01", "1F", "7F", "80", "A8", "A9", "BD", "BF", "C3", "E2", "EF",
        "FF" >>
      codes == <<
        47, 48, 49, 50, 51, 52, 53, 54, 55, 56, 57, 34, 38, 60, 62, 92, 97,
        98, 99, 120, 9, 10, 12, 13, 32, 100, 107, 65, 72, 84, 101, 105, 109,
        111, 112, 114, 115, 116, 118, 121, 1, 31, 127, 128, 168, 169, 189,
        191, 195, 226, 239, 255 >>
  IN codes[CHOOSE k \in 1..Len(chars) : chars[k] = ch]

\* strings.IndexByte: 0-based index of the first c in s, or -1
IndexByte(s, c) ==
  IF \E j \in 1..Len(s) : s[j] = c
  THEN (CHOOSE j \in 1..Len(s) : s[j] = c /\ \A k \in 1..(j-1) : s[k] # c) - 1
  ELSE 0 - 1

\* Go slices s[:i] and s[i:]
SliceTo(s, i) == SubSeq(s, 1, i)
SliceFrom(s, i) == SubSeq(s, i + 1, Len(s))

DigitChar(n) ==
  CASE n = 0 -> "0" [] n = 1 -> "1" [] n = 2 -> "2" [] n = 3 -> "3"
    [] n = 4 -> "4" [] n = 5 -> "5" [] n = 6 -> "6" [] n = 7 -> "7"
    [] n = 8 -> "8" [] n = 9 -> "9"

RECURSIVE Sprint(_)
\* fmt.Sprint / strconv.Itoa of an int
Sprint(n) ==
  IF n < 0 THEN <<"-">> \o Sprint(0 - n)
  ELSE IF n < 10 THEN <<DigitChar(n)>>
  ELSE Sprint(n \div 10) \o <<DigitChar(n % 10)>>

(***************************************************************************)
(* Constructors.                                                           *)
(***************************************************************************)
NoKeys == [k \in {} |-> 0]

NewMap == [keysNil |-> FALSE, keys |-> NoKeys, ordKeys |-> <<>>,
           values |-> <<>>, iterCounter |-> 0]

NewArray == [keysNil |-> TRUE, keys |-> NoKeys, ordKeys |-> <<>>,
             values |-> <<>>, iterCounter |-> 0]

IsArray(h, self) == IF self = NilDoc THEN FALSE ELSE h[self].keysNil

IsFrozen(h, self) == h[self].iterCounter < 0

RECURSIVE key2IndexFrom(_, _, _)
key2IndexFrom(s, j, n) ==
  IF j > Len(s) THEN n
  ELSE LET ch == (Byte(s[j]) - 48) % 256
       IN IF ch > 9 THEN 0 - 1 ELSE key2IndexFrom(s, j + 1, n * 10 + ch)

\* key2Index as it would be if text that is no number counted as index 0
key2Index_lenient(s) ==
  IF 0 < Len(s) /\ Len(s) < 10
  THEN (IF key2IndexFrom(s, 1, 0) < 0 THEN 0 ELSE key2IndexFrom(s, 1, 0))
  ELSE 0 - 1

key2Index(s) ==
  IF 0 < Len(s) /\ Len(s) < 10 THEN key2IndexFrom(s, 1, 0) ELSE 0 - 1

\* append(values, make([]interface{}, i-len(values)+1)...): nil-extend to index i
ExtendTo(values, i) ==
  IF i >= Len(values)
  THEN values \o [j \in 1..(i - Len(values) + 1) |-> VNil]
  ELSE values

\* keys[key] = inx on a Go map
MapPut(keys, key, inx) ==
  [k \in (DOMAIN keys) \cup {key} |-> IF k = key THEN inx ELSE keys[k]]

MapDelete(keys, key) == [k \in (DOMAIN keys) \ {key} |-> keys[k]]

\* set as it would be without the branch for a key that is already in keys:
\* the value always goes to a new slot
set_alwaysAppend(h, self, key, value) ==
  LET d == h[self] IN
  IF d.iterCounter < 0 THEN [h |-> h, err |-> TRUE]
  ELSE IF IsArray(h, self) THEN
    LET i == key2Index(key) IN
    IF i < 0 THEN [h |-> h, err |-> TRUE]
    ELSE [h |-> [h EXCEPT ![self].values =
                    [ExtendTo(d.values, i) EXCEPT ![i + 1] = value]],
          err |-> FALSE]
  ELSE
    [h |-> [h EXCEPT ![self].keys = MapPut(d.keys, key, Len(d.values)),
                     ![self].values = Append(d.values, value),
                     ![self].ordKeys = Append(d.ordKeys, key)],
     err |-> FALSE]

set(h, self, key, value) ==
  LET d == h[self] IN
  IF d.iterCounter < 0 THEN [h |-> h, err |-> TRUE]
  ELSE IF IsArray(h, self) THEN
    LET i == key2Index(key) IN
    IF i < 0 THEN [h |-> h, err |-> TRUE]
    ELSE [h |-> [h EXCEPT ![self].values =
                    [ExtendTo(d.values, i) EXCEPT ![i + 1] = value]],
          err |-> FALSE]
  ELSE IF key \in DOMAIN d.keys THEN
    LET inx == d.keys[key] IN
    [h |-> [h EXCEPT ![self].values = [d.values EXCEPT ![inx + 1] = value],
                     ![self].ordKeys = [d.ordKeys EXCEPT ![inx + 1] = key]],
     err |-> FALSE]
  ELSE
    LET inx == Len(d.values) IN
    [h |-> [h EXCEPT ![self].keys = MapPut(d.keys, key, inx),
                     ![self].values = Append(d.values, value),
                     ![self].ordKeys = Append(d.ordKeys, key)],
     err |-> FALSE]

\* SetI as it would be if an index past the end were appended at the end,
\* without the nils in between
SetI_append(h, self, i, value) ==
  LET d == h[self] IN
  IF d.iterCounter < 0 THEN [h |-> h, err |-> TRUE]
  ELSE IF IsArray(h, self) THEN
    IF i < 0 THEN [h |-> h, err |-> TRUE]
    ELSE IF i >= Len(d.values)
      THEN [h |-> [h EXCEPT ![self].values = Append(d.values, value)], err |-> FALSE]
      ELSE [h |-> [h EXCEPT ![self].values = [d.values EXCEPT ![i + 1] = value]],
            err |-> FALSE]
  ELSE set(h, self, Sprint(i), value)

SetI(h, self, i, value) ==
  LET d == h[self] IN
  IF d.iterCounter < 0 THEN [h |-> h, err |-> TRUE]
  ELSE IF IsArray(h, self) THEN
    IF i < 0 THEN [h |-> h, err |-> TRUE]
    ELSE [h |-> [h EXCEPT ![self].values =
                    [ExtendTo(d.values, i) EXCEPT ![i + 1] = value]],
          err |-> FALSE]
  ELSE set(h, self, Sprint(i), value)

\* get as it would be if it took a stored nil for a missing entry
get_nilIsMissing(h, self, key) ==
  IF self = NilDoc THEN [v |-> VNil, ok |-> FALSE]
  ELSE IF IsArray(h, self) THEN
    LET i == key2Index(key) IN
    IF i < 0 THEN [v |-> VNil, ok |-> FALSE]
    ELSE IF i < Len(h[self].values)
      THEN [v |-> h[self].values[i + 1], ok |-> h[self].values[i + 1] # VNil]
      ELSE [v |-> VNil, ok |-> FALSE]
  ELSE IF key \notin DOMAIN h[self].keys THEN [v |-> VNil, ok |-> FALSE]
  ELSE LET v == h[self].values[h[self].keys[key] + 1]
       IN [v |-> v, ok |-> v # VNil]

get(h, self, key) ==
  IF self = NilDoc THEN [v |-> VNil, ok |-> FALSE]
  ELSE IF IsArray(h, self) THEN
    LET i == key2Index(key) IN
    IF i < 0 THEN [v |-> VNil, ok |-> FALSE]
    ELSE IF i < Len(h[self].values) THEN [v |-> h[self].values[i + 1], ok |-> TRUE]
    ELSE [v |-> VNil, ok |-> FALSE]
  ELSE IF key \notin DOMAIN h[self].keys THEN [v |-> VNil, ok |-> FALSE]
  ELSE [v |-> h[self].values[h[self].keys[key] + 1], ok |-> TRUE]

\* the loops over a map's slots step over the ones that hold gDeletedEntry:
\* the first slot at or after i (0-based) that does not, or -1
NextLiveSlot(values, i) ==
  LET S == {j \in i..(Len(values) - 1) : values[j + 1] # gDeletedEntry}
  IN IF S = {} THEN 0 - 1 ELSE CHOOSE j \in S : \A k \in S : j <= k

\* indices (1-based) of the slots that hold no gDeletedEntry, in order
LiveSlots(d) == SelectSeq([i \in 1..Len(d.values) |-> i],
                          LAMBDA i : d.values[i] # gDeletedEntry)

RECURSIVE packKeys(_, _, _)
\* the loop's  self.keys[ordKeys[j]] = j  for j = 0 .. len(ordKeys)-1
packKeys(keys, ordKeys, j) ==
  IF j >= Len(ordKeys) THEN keys
  ELSE packKeys(MapPut(keys, ordKeys[j + 1], j), ordKeys, j + 1)

\* compaction as it would be if it stored the live slots last to first
packing_reversed(h, self) ==
  IF self = NilDoc \/ h[self].iterCounter # 0 \/ IsArray(h, self) THEN h
  ELSE LET d == h[self] IN
    IF Len(d.values) >= PackMinSlots /\ Cardinality(DOMAIN d.keys) * 3 < Len(d.values)
    THEN LET live == LiveSlots(d)
             n == Cardinality(DOMAIN d.keys)
             values == [j \in 1..n |-> d.values[live[n + 1 - j]]]
             ordKeys == [j \in 1..n |-> d.ordKeys[live[n + 1 - j]]]
         IN [h EXCEPT ![self].values = values,
                      ![self].ordKeys = ordKeys,
                      ![self].keys = packKeys(d.keys, ordKeys, 0)]
    ELSE h

\* compaction as it would be if it moved the live slots and left the index as
\* it was
packing_keepIndex(h, self) ==
  IF self = NilDoc \/ h[self].iterCounter # 0 \/ IsArray(h, self) THEN h
  ELSE LET d == h[self] IN
    IF Len(d.values) >= PackMinSlots /\ Cardinality(DOMAIN d.keys) * 3 < Len(d.values)
    THEN LET live == LiveSlots(d)
             n == Cardinality(DOMAIN d.keys)
         IN [h EXCEPT ![self].values = [j \in 1..n |-> d.values[live[j]]],
                      ![self].ordKeys = [j \in 1..n |-> d.ordKeys[live[j]]]]
    ELSE h

\* compaction as it would be if it took no notice of a running iteration
packing_whileIterating(h, self) ==
  IF self = NilDoc \/ IsArray(h, self) THEN h
  ELSE LET d == h[self] IN
    IF Len(d.values) >= PackMinSlots /\ Cardinality(DOMAIN d.keys) * 3 < Len(d.values)
    THEN LET live == LiveSlots(d)
             n == Cardinality(DOMAIN d.keys)
             values == [j \in 1..n |-> d.values[live[j]]]
             ordKeys == [j \in 1..n |-> d.ordKeys[live[j]]]
         IN [h EXCEPT ![self].values = values,
                      ![self].ordKeys = ordKeys,
                      ![self].keys = packKeys(d.keys, ordKeys, 0)]
    ELSE h

packing(h, self) ==
  IF self = NilDoc \/ h[self].iterCounter # 0 \/ IsArray(h, self) THEN h
  ELSE LET d == h[self] IN
    IF Len(d.values) >= PackMinSlots /\ Cardinality(DOMAIN d.keys) * 3 < Len(d.values)
    THEN LET live == LiveSlots(d)
             n == Cardinality(DOMAIN d.keys)
             values == [j \in 1..n |-> d.values[live[j]]]
             ordKeys == [j \in 1..n |-> d.ordKeys[live[j]]]
         IN [h EXCEPT ![self].values = values,
                      ![self].ordKeys = ordKeys,
                      ![self].keys = packKeys(d.keys, ordKeys, 0)]
    ELSE h

\* Len as it would be if it counted the slots of a map, tombstones included
Len_slots(h, self) ==
  IF self = NilDoc THEN 0 ELSE Len(h[self].values)

Len_(h, self) ==
  IF self = NilDoc THEN 0
  ELSE IF IsArray(h, self) THEN Len(h[self].values)
  ELSE Cardinality(DOMAIN h[self].keys)

Keys(h, self) ==
  IF self = NilDoc THEN <<>>
  ELSE IF IsArray(h, self) THEN [i \in 1..Len(h[self].values) |-> Sprint(i - 1)]
  ELSE LET live == LiveSlots(h[self])
       IN [j \in 1..Len(live) |-> h[self].ordKeys[live[j]]]

(***************************************************************************)
(* Path resolution.                                                        *)
(***************************************************************************)
\* createLevelFromNextPath as it would be if it never looked at the next segment
createLevelFromNextPath_map(path) == NewMap

\* createLevelFromNextPath as it would be if it tested the whole rest of the
\* path, not its first segment
createLevelFromNextPath_wholePath(path) ==
  IF key2Index(path) >= 0 THEN NewArray ELSE NewMap

createLevelFromNextPath(path) ==
  LET i == IndexByte(path, "/")
      name == IF i >= 0 THEN SliceTo(path, i) ELSE path
  IN IF key2Index(name) >= 0 THEN NewArray ELSE NewMap

RECURSIVE doOpLoop(_, _, _, _, _, _)
\* the for-loop of doOp; level is the current container, path what is left
doOpLoop(h, level, path, autoCreate, setValue, value) ==
  IF Len(path) = 0 THEN [h |-> h, v |-> VDoc(level), ok |-> TRUE]
  ELSE LET i == IndexByte(path, "/") IN
    IF i = 0 THEN doOpLoop(h, level, SliceFrom(path, 1), autoCreate, setValue, value)
    ELSE IF i > 0 THEN
      LET name == SliceTo(path, i)
          rest == SliceFrom(path, i + 1)
          next == get(h, level, name)
      IN IF next.ok /\ IsDoc(next.v)
         THEN doOpLoop(h, next.v.n, rest, autoCreate, setValue, value)
         ELSE IF autoCreate
           THEN LET nextMap == Len(h) + 1
                    h1 == Append(h, createLevelFromNextPath(rest))
                    h2 == set(h1, level, name, VDoc(nextMap)).h
                IN doOpLoop(h2, nextMap, rest, autoCreate, setValue, value)
           ELSE [h |-> h, v |-> VNil, ok |-> FALSE]
    ELSE
      LET h1 == IF setValue THEN set(h, level, path, value).h ELSE h
          r == get(h1, level, path)
      IN [h |-> h1, v |-> r.v, ok |-> r.ok]

\* doOp as it would be if a reader's autoCreate = false were lost on the way
doOp_alwaysCreate(h, self, path, autoCreate, setValue, value) ==
  IF setValue /\ h[self].iterCounter < 0
  THEN [h |-> h, v |-> VNil, ok |-> FALSE]
  ELSE doOpLoop(h, self, path, TRUE, setValue, value)

\* doOp as it would be if Set's autoCreate = true were lost on the way
doOp_neverCreate(h, self, path, autoCreate, setValue, value) ==
  IF setValue /\ h[self].iterCounter < 0
  THEN [h |-> h, v |-> VNil, ok |-> FALSE]
  ELSE doOpLoop(h, self, path, FALSE, setValue, value)

doOp(h, self, path, autoCreate, setValue, value) ==
  IF setValue /\ h[self].iterCounter < 0
  THEN [h |-> h, v |-> VNil, ok |-> FALSE]
  ELSE doOpLoop(h, self, path, autoCreate, setValue, value)

\* nil stays nil, a *DynamicJSON is stored as the same pointer, a scalar as is
convertToDJ(v) ==
  CASE v.t = "nil" -> VNil
    [] v.t = "doc" -> v
    [] OTHER -> v

Set(h, self, path, value) == doOp(h, self, path, TRUE, TRUE, convertToDJ(value)).h

Fetch(h, self, path) ==
  LET r == doOp(h, self, path, FALSE, FALSE, VNil)
  IN IF r.ok THEN [h |-> r.h, v |-> r.v, ok |-> TRUE]
     ELSE [h |-> r.h, v |-> VNil, ok |-> FALSE]

Get(h, self, path) ==
  LET r == doOp(h, self, path, FALSE, FALSE, VNil)
  IN IF r.ok THEN [h |-> r.h, v |-> r.v] ELSE [h |-> r.h, v |-> VNil]

\* the *DynamicJSON the path leads to, or nil
Nested(h, self, path) ==
  IF self = NilDoc THEN [h |-> h, d |-> NilDoc]
  ELSE LET r == doOp(h, self, path, FALSE, FALSE, VNil)
       IN IF ~r.ok THEN [h |-> r.h, d |-> NilDoc]
          ELSE IF r.v.t = "doc" THEN [h |-> r.h, d |-> r.v.n]
          ELSE [h |-> r.h, d |-> NilDoc]

\* self.values[i] with a negative i is an index out of range: a run-time panic
NestedI(h, self, i) ==
  IF self = NilDoc THEN [d |-> NilDoc, panic |-> FALSE]
  ELSE IF ~IsArray(h, self) THEN [d |-> NilDoc, panic |-> FALSE]
  ELSE IF i < Len(h[self].values)
  THEN IF i < 0 THEN [d |-> NilDoc, panic |-> TRUE]
       ELSE IF h[self].values[i + 1].t = "doc"
       THEN [d |-> h[self].values[i + 1].n, panic |-> FALSE]
       ELSE [d |-> NilDoc, panic |-> FALSE]
  ELSE [d |-> NilDoc, panic |-> FALSE]

GetI(h, self, i) ==
  IF self = NilDoc THEN [v |-> VNil, panic |-> FALSE]
  ELSE IF ~IsArray(h, self) THEN [v |-> VNil, panic |-> FALSE]
  ELSE IF i < Len(h[self].values)
  THEN IF i < 0 THEN [v |-> VNil, panic |-> TRUE]
       ELSE [v |-> h[self].values[i + 1], panic |-> FALSE]
  ELSE [v |-> VNil, panic |-> FALSE]

\* Has as it would be if it gave the found flag of Fetch
Has_viaFetch(h, self, path) ==
  [h |-> Fetch(h, self, path).h, ok |-> Fetch(h, self, path).ok]

RECURSIVE Has(_, _, _)
Has(h, self, path) ==
  IF self = NilDoc THEN [h |-> h, ok |-> FALSE]
  ELSE LET i == IndexByte(path, "/") IN
    IF i >= 0
    THEN LET n == Nested(h, self, SliceTo(path, i))
         IN Has(n.h, n.d, SliceFrom(path, i + 1))
    ELSE IF IsArray(h, self)
      THEN LET k == key2Index(path)
           IN [h |-> h, ok |-> k >= 0 /\ k < Len(h[self].values)]
      ELSE [h |-> h, ok |-> path \in DOMAIN h[self].keys]

\* removal as it would be if an array kept the slot and emptied it, the way a
\* map does
RemoveAt_keepSlot(s, i) == [s EXCEPT ![i + 1] = VNil]

\* append(s[:i], s[i+1:]...) on a slice, i 0-based
RemoveAt(s, i) == SubSeq(s, 1, i) \o SubSeq(s, i + 2, Len(s))

RECURSIVE Delete(_, _, _)
Delete(h, self, path) ==
  IF self = NilDoc THEN [h |-> h, err |-> FALSE]
  ELSE IF h[self].iterCounter < 0 THEN [h |-> h, err |-> TRUE]
  ELSE LET i == IndexByte(path, "/") IN
    IF i >= 0
    THEN LET n == Nested(h, self, SliceTo(path, i))
         IN [h |-> Delete(n.h, n.d, SliceFrom(path, i + 1)).h, err |-> FALSE]
    ELSE IF IsArray(h, self)
      THEN LET k == key2Index(path) IN
           IF k < 0 THEN [h |-> h, err |-> FALSE]
           ELSE IF k < Len(h[self].values)
             THEN [h |-> [h EXCEPT ![self].values = RemoveAt(h[self].values, k)],
                   err |-> FALSE]
             ELSE [h |-> h, err |-> FALSE]
      ELSE IF path \notin DOMAIN h[self].keys THEN [h |-> h, err |-> FALSE]
      ELSE LET inx == h[self].keys[path]
               h1 == [h EXCEPT ![self].values[inx + 1] = gDeletedEntry,
                               ![self].keys = MapDelete(h[self].keys, path)]
           IN [h |-> packing(h1, self), err |-> FALSE]

Clear(h, self) ==
  IF self = NilDoc \/ h[self].iterCounter < 0 THEN h
  ELSE [h EXCEPT ![self].values = <<>>,
                 ![self].keys = NoKeys,
                 ![self].ordKeys = <<>>]

Append_(h, self, v) ==
  IF self = NilDoc THEN h
  ELSE IF IsArray(h, self) THEN [h EXCEPT ![self].values = Append(h[self].values, v)]
  ELSE h

RECURSIVE Freeze(_, _)
RECURSIVE FreezeFrom(_, _, _)
\* the loops of Freeze over self.values, from slot i (1-based) on: the slots
\* that hold no *DynamicJSON (gDeletedEntry among them) are stepped over
FreezeFrom(h, self, i) ==
  LET S == {j \in i..Len(h[self].values) : IsDoc(h[self].values[j])}
  IN IF S = {} THEN h
     ELSE LET j == CHOOSE j \in S : \A k \in S : j <= k
          IN FreezeFrom(Freeze(h, h[self].values[j].n), self, j + 1)

Freeze(h, self) ==
  IF self = NilDoc THEN h
  ELSE IF h[self].iterCounter < 0 THEN h
  ELSE [FreezeFrom(h, self, 1) EXCEPT ![self].iterCounter = FrozenCounter]

(***************************************************************************)
(* Accessors that create.  Each returns the heap it leaves, the document   *)
(* it returns and whether it panicked; the error set and SetI return is    *)
(* dropped, and the new container is returned whether it was stored or not *)
(***************************************************************************)
\* Array as it would be if it never returned the child it finds
Array_alwaysNew(h, self, name) ==
  IF self = NilDoc THEN [h |-> h, d |-> NilDoc, panic |-> FALSE]
  ELSE LET x == Len(h) + 1
       IN [h |-> set(Append(h, NewArray), self, name, VDoc(x)).h, d |-> x,
           panic |-> FALSE]

Array(h, self, name) ==
  IF self = NilDoc THEN [h |-> h, d |-> NilDoc, panic |-> FALSE]
  ELSE LET r == get(h, self, name)
       IN IF r.ok /\ IsDoc(r.v) /\ IsArray(h, r.v.n)
          THEN [h |-> h, d |-> r.v.n, panic |-> FALSE]
          ELSE LET x == Len(h) + 1
               IN [h |-> set(Append(h, NewArray), self, name, VDoc(x)).h, d |-> x,
                   panic |-> FALSE]

\* self.values[i] with a negative i is an index out of range
ArrayI(h, self, i) ==
  IF self = NilDoc THEN [h |-> h, d |-> NilDoc, panic |-> FALSE]
  ELSE IF ~IsArray(h, self) THEN Array(h, self, Sprint(i))
  ELSE IF i < 0 THEN [h |-> h, d |-> NilDoc, panic |-> TRUE]
  ELSE IF /\ i < Len(h[self].values)
          /\ IsDoc(h[self].values[i + 1]) /\ IsArray(h, h[self].values[i + 1].n)
  THEN [h |-> h, d |-> h[self].values[i + 1].n, panic |-> FALSE]
  ELSE LET x == Len(h) + 1
       IN [h |-> SetI(Append(h, NewArray), self, i, VDoc(x)).h, d |-> x,
           panic |-> FALSE]

Map(h, self, name) ==
  IF self = NilDoc THEN [h |-> h, d |-> NilDoc, panic |-> FALSE]
  ELSE LET r == get(h, self, name)
       IN IF r.ok /\ IsDoc(r.v) /\ ~IsArray(h, r.v.n)
          THEN [h |-> h, d |-> r.v.n, panic |-> FALSE]
          ELSE LET x == Len(h) + 1
               IN [h |-> set(Append(h, NewMap), self, name, VDoc(x)).h, d |-> x,
                   panic |-> FALSE]

\* on a receiver that is no Array MapI hands over to Array, not to Map
MapI(h, self, i) ==
  IF self = NilDoc THEN [h |-> h, d |-> NilDoc, panic |-> FALSE]
  ELSE IF ~IsArray(h, self) THEN Array(h, self, Sprint(i))
  ELSE IF i < 0 THEN [h |-> h, d |-> NilDoc, panic |-> TRUE]
  ELSE IF /\ i < Len(h[self].values)
          /\ IsDoc(h[self].values[i + 1]) /\ ~IsArray(h, h[self].values[i + 1].n)
  THEN [h |-> h, d |-> h[self].values[i + 1].n, panic |-> FALSE]
  ELSE LET x == Len(h) + 1
       IN [h |-> SetI(Append(h, NewMap), self, i, VDoc(x)).h, d |-> x,
           panic |-> FALSE]

(***************************************************************************)
(* Typed readers.  Each resolves the path with doOp(path, false, false)    *)
(* and coerces what it finds; the heap the resolution leaves is returned   *)
(* with the result.                                                        *)
(***************************************************************************)
Digits == { "0", "1", "2", "3", "4", "5", "6", "7", "8", "9" }

RECURSIVE DigitsValue(_, _)
\* the number a run of decimal digits denotes
DigitsValue(s, acc) ==
  IF s = <<>> THEN acc ELSE DigitsValue(Tail(s), acc * 10 + (CHOOSE n \in 0..9 : DigitChar(n) = Head(s)))

\* strconv.ParseInt(s, 10, 64) and strconv.Atoi: an optional sign and decimal
\* digits, at least one (the texts of this model are far from overflow)
ParseInt(s) ==
  LET signed == Len(s) > 0 /\ (s[1] = "-" \/ s[1] = "+")
      body == IF signed THEN Tail(s) ELSE s
  IN IF body = <<>> \/ \E j \in 1..Len(body) : body[j] \notin Digits
     THEN [ok |-> FALSE, n |-> 0]
     ELSE [ok |-> TRUE,
           n |-> IF signed /\ s[1] = "-" THEN 0 - DigitsValue(body, 0)
                 ELSE DigitsValue(body, 0)]

\* strings.TrimSuffix
TrimSuffix(s, suffix) ==
  IF Len(s) >= Len(suffix) /\ SubSeq(s, Len(s) - Len(suffix) + 1, Len(s)) = suffix
  THEN SubSeq(s, 1, Len(s) - Len(suffix))
  ELSE s

\* a json.Number without its trailing ".0" if it then parses as an integer,
\* an int as it is, a string if Atoi accepts it, the default otherwise
value2int(v, defaultValue) ==
  IF v.t = "num" /\ ParseInt(TrimSuffix(v.s, <<".", "0">>)).ok
  THEN ParseInt(TrimSuffix(v.s, <<".", "0">>)).n
  ELSE IF v.t = "int" THEN v.n
  ELSE IF v.t = "str" /\ ParseInt(v.s).ok THEN ParseInt(v.s).n
  ELSE defaultValue

\* GetInt as it would be if a missing entry gave 0, not the caller's default
GetInt_zeroWhenMissing(h, self, path, defaultValue) ==
  LET r == doOp(h, self, path, FALSE, FALSE, VNil)
  IN [h |-> r.h, v |-> IF ~r.ok THEN 0 ELSE value2int(r.v, defaultValue)]

GetInt(h, self, path, defaultValue) ==
  LET r == doOp(h, self, path, FALSE, FALSE, VNil)
  IN [h |-> r.h, v |-> IF ~r.ok THEN defaultValue ELSE value2int(r.v, defaultValue)]

\* strconv.ParseFloat(s, 64) and json.Number.Float64 on a decimal text: an
\* optional sign, digits with an optional point, an optional exponent.  The
\* float is held as the decimal m * 10^e it is nearest to, m without trailing
\* zeros, which tells the floats of short texts apart exactly
ParseFloat(s) ==
  LET neg == Len(s) > 0 /\ s[1] = "-"
      body == IF Len(s) > 0 /\ s[1] \in { "-", "+" } THEN Tail(s) ELSE s
      ePos == IF IndexByte(body, "e") >= 0 THEN IndexByte(body, "e")
              ELSE IF IndexByte(body, "E") >= 0 THEN IndexByte(body, "E")
              ELSE Len(body)
      mant == SliceTo(body, ePos)
      expo == SliceFrom(body, ePos + 1)
      dot == IF IndexByte(mant, ".") >= 0 THEN IndexByte(mant, ".") ELSE Len(mant)
      intPart == SliceTo(mant, dot)
      fracPart == SliceFrom(mant, dot + 1)
      digits == intPart \o fracPart
      ok == /\ digits # <<>>
            /\ \A j \in 1..Len(digits) : digits[j] \in Digits
            /\ ePos < Len(body) => ParseInt(expo).ok
      m0 == DigitsValue(digits, 0)
      e0 == (IF ePos < Len(body) THEN ParseInt(expo).n ELSE 0) - Len(fracPart)
      k == CHOOSE k \in 0..Len(digits) :
             m0 % (10 ^ k) = 0 /\ (k = Len(digits) \/ m0 % (10 ^ (k + 1)) # 0)
  IN IF ~ok THEN [ok |-> FALSE, f |-> [m |-> 0, e |-> 0]]
     ELSE IF m0 = 0 THEN [ok |-> TRUE, f |-> [m |-> 0, e |-> 0]]
     ELSE [ok |-> TRUE,
           f |-> [m |-> IF neg THEN 0 - (m0 \div (10 ^ k)) ELSE m0 \div (10 ^ k),
                  e |-> e0 + k]]

\* the float of a json.Number or of a string that parses as one, the default
\* otherwise; an int is not converted.  No document of these specifications
\* holds a float64
GetFloat(h, self, path, defaultValue) ==
  LET r == doOp(h, self, path, FALSE, FALSE, VNil)
  IN [h |-> r.h,
      v |-> IF r.ok /\ r.v.t \in { "num", "str" } /\ ParseFloat(r.v.s).ok
            THEN ParseFloat(r.v.s).f
            ELSE defaultValue]

GetBool(h, self, path, defaultValue) ==
  LET r == doOp(h, self, path, FALSE, FALSE, VNil)
  IN [h |-> r.h, v |-> IF r.ok /\ r.v.t = "bool" THEN r.v.b ELSE defaultValue]

value2string(v, defaultValue) ==
  IF v.t = "str" \/ v.t = "num" THEN v.s
  ELSE IF v.t = "int" THEN Sprint(v.n)
  ELSE defaultValue

GetString(h, self, path, defaultValue) ==
  LET r == doOp(h, self, path, FALSE, FALSE, VNil)
  IN [h |-> r.h, v |-> IF ~r.ok THEN defaultValue ELSE value2string(r.v, defaultValue)]

GetStr(h, self, path) ==
  LET r == doOp(h, self, path, FALSE, FALSE, VNil)
  IN [h |-> r.h, v |-> IF r.ok /\ r.v.t = "str" THEN r.v.s ELSE <<>>]

\* GetSlice: the elements of the array at path as documents (nil for the others)
GetSlice(h, self, path) ==
  IF self = NilDoc THEN [h |-> h, v |-> <<>>]
  ELSE LET r == doOp(h, self, path, FALSE, FALSE, VNil) IN
    IF r.ok /\ IsDoc(r.v) /\ IsArray(r.h, r.v.n)
    THEN [h |-> r.h,
          v |-> [i \in 1..Len(r.h[r.v.n].values) |->
                   IF IsDoc(r.h[r.v.n].values[i]) THEN r.h[r.v.n].values[i].n ELSE NilDoc]]
    ELSE [h |-> r.h, v |-> <<>>]

GetStringsSlice(h, self, path) ==
  IF self = NilDoc THEN [h |-> h, v |-> <<>>]
  ELSE LET r == doOp(h, self, path, FALSE, FALSE, VNil) IN
    IF r.ok /\ IsDoc(r.v) /\ IsArray(r.h, r.v.n)
    THEN [h |-> r.h,
          v |-> [i \in 1..Len(r.h[r.v.n].values) |-> value2string(r.h[r.v.n].values[i], <<>>)]]
    ELSE [h |-> r.h, v |-> <<>>]

GetAnySlice(h, self, path) ==
  IF self = NilDoc THEN [h |-> h, v |-> <<>>]
  ELSE LET r == doOp(h, self, path, FALSE, FALSE, VNil) IN
    IF r.ok /\ IsDoc(r.v) /\ IsArray(r.h, r.v.n)
    THEN [h |-> r.h, v |-> r.h[r.v.n].values]
    ELSE [h |-> r.h, v |-> <<>>]

GetIntsSlice(h, self, path) ==
  IF self = NilDoc THEN [h |-> h, v |-> <<>>]
  ELSE LET r == doOp(h, self, path, FALSE, FALSE, VNil) IN
    IF r.ok /\ IsDoc(r.v) /\ IsArray(r.h, r.v.n)
    THEN [h |-> r.h,
          v |-> [i \in 1..Len(r.h[r.v.n].values) |-> value2int(r.h[r.v.n].values[i], 0)]]
    ELSE [h |-> r.h, v |-> <<>>]

(***************************************************************************)
(* Visit.  The calls of the callback are a sequence of (path, value)       *)
(* pairs, in the order they are made.                                      *)
(***************************************************************************)
RECURSIVE visit(_, _, _)
RECURSIVE visitFrom(_, _, _, _)

\* the loop of visit over the slots, from slot i (0-based) on
visitFrom(h, self, prefix, i) ==
  IF i >= Len(h[self].values) THEN <<>>
  ELSE IF ~IsArray(h, self) /\ h[self].values[i + 1] = gDeletedEntry
  THEN visitFrom(h, self, prefix, i + 1)
  ELSE LET p == prefix \o (IF IsArray(h, self) THEN Sprint(i)
                           ELSE h[self].ordKeys[i + 1])
           v == h[self].values[i + 1]
       IN <<[path |-> p, value |-> v]>>
            \o (IF IsDoc(v) THEN visit(h, v.n, p) ELSE <<>>)
            \o visitFrom(h, self, prefix, i + 1)

visit(h, self, path) ==
  IF self = NilDoc THEN <<>>
  ELSE visitFrom(h, self, IF path # <<>> THEN path \o <<"/">> ELSE path, 0)

Visit(h, self) == visit(h, self, <<>>)

(***************************************************************************)
(* Serializer.                                                             *)
(***************************************************************************)
HexChar(n) ==
  CASE n < 10 -> DigitChar(n)
    [] n = 10 -> "a" [] n = 11 -> "b" [] n = 12 -> "c"
    [] n = 13 -> "d" [] n = 14 -> "e" [] n = 15 -> "f"

\* escapeIndex as it would be if it never found a byte to escape
escapeIndex_noneFound(s, escapeHTML) == 0 - 1

\* escapeIndex(s, escapeHTML).  The first 8 * (len(s) / 8) bytes are read as
\* uint64 chunks, a chunk being its 8 bytes from the least significant one (the first
\* in memory on a little-endian machine), and the arithmetic on a chunk is
\* done here byte by byte with its borrows.  For the first chunk whose mask
\* has a most significant bit set, the result is the place of the lowest such
\* byte within that chunk; behind the chunks the bytes are looked at one by one
escapeIndex(s, escapeHTML) ==
  LET nChunks == Len(s) \div 8
      chunk(q) == [k \in 1..8 |-> Byte(s[8 * q + k])]
      expand(b) == [k \in 1..8 |-> b]
      lsb == [k \in 1..8 |-> 1]
      xorByte(x, y) ==
        LET bit(t) == ((x \div (2 ^ t)) + (y \div (2 ^ t))) % 2
        IN bit(0) + 2 * bit(1) + 4 * bit(2) + 8 * bit(3)
             + 16 * bit(4) + 32 * bit(5) + 64 * bit(6) + 128 * bit(7)
      xor(x, y) == [k \in 1..8 |-> xorByte(x[k], y[k])]
      minus(x, y) ==
        LET borrow[k \in 0..8] ==
              IF k = 0 THEN 0
              ELSE IF x[k] - y[k] - borrow[k - 1] < 0 THEN 1 ELSE 0
        IN [k \in 1..8 |-> (x[k] - y[k] - borrow[k - 1] + 256) % 256]
      below(n, b) == minus(n, expand(b))
      contains(n, b) == minus(xor(n, expand(b)), lsb)
      msbSet(n, k) ==
        \/ n[k] >= 128
        \/ below(n, 32)[k] >= 128
        \/ contains(n, Byte("\""))[k] >= 128
        \/ contains(n, Byte("\\"))[k] >= 128
        \/ /\ escapeHTML
           /\ \/ contains(n, Byte("<"))[k] >= 128
              \/ contains(n, Byte(">"))[k] >= 128
              \/ contains(n, Byte("&"))[k] >= 128
      hit(q) == \E k \in 1..8 : msbSet(chunk(q), k)
      escaped(i) ==
        LET c == Byte(s[i + 1])
        IN \/ c < 32 \/ c > 127 \/ s[i + 1] \in { "\"", "\\" }
           \/ escapeHTML /\ s[i + 1] \in { "<", ">", "&" }
  IN IF \E q \in 0..(nChunks - 1) : hit(q)
     THEN LET q == CHOOSE q \in 0..(nChunks - 1) :
                     hit(q) /\ \A p \in 0..(q - 1) : ~hit(p)
              n == chunk(q)
          IN (CHOOSE k \in 1..8 : msbSet(n, k) /\ \A m \in 1..(k - 1) : ~msbSet(n, m)) - 1
     ELSE IF \E i \in (nChunks * 8)..(Len(s) - 1) : escaped(i)
     THEN CHOOSE i \in (nChunks * 8)..(Len(s) - 1) :
            escaped(i) /\ \A m \in (nChunks * 8)..(i - 1) : ~escaped(m)
     ELSE 0 - 1

\* utf8.DecodeRuneInString(s[j:]): the rune and the count of its bytes, or
\* RuneError (U+FFFD) and 1 for a byte that starts no well-formed encoding
DecodeRuneInString(s, j) ==
  LET b(k) == Byte(s[j + k + 1])
      cont(k) == j + k < Len(s) /\ b(k) \in 128..191
      b0 == b(0)
  IN IF b0 < 128 THEN [r |-> b0, size |-> 1]
     ELSE IF b0 \in 194..223 /\ cont(1)
       THEN [r |-> (b0 - 192) * 64 + (b(1) - 128), size |-> 2]
     ELSE IF /\ b0 \in 224..239 /\ cont(1) /\ cont(2)
             /\ (b0 = 224 => b(1) >= 160) /\ (b0 = 237 => b(1) <= 159)
       THEN [r |-> (b0 - 224) * 4096 + (b(1) - 128) * 64 + (b(2) - 128), size |-> 3]
     ELSE IF /\ b0 \in 240..244 /\ cont(1) /\ cont(2) /\ cont(3)
             /\ (b0 = 240 => b(1) >= 144) /\ (b0 = 244 => b(1) <= 143)
       THEN [r |-> (b0 - 240) * 262144 + (b(1) - 128) * 4096
                     + (b(2) - 128) * 64 + (b(3) - 128),
             size |-> 4]
     ELSE [r |-> 65533, size |-> 1]

RECURSIVE encodeLoop(_, _, _)
\* the loop of encodeString: what is written from the state (i, j) on, s[i:j]
\* being read and not yet written
encodeLoop(s, i, j) ==
  IF j >= Len(s) THEN SubSeq(s, i + 1, Len(s))
  ELSE LET ch == s[j + 1]
           c == Byte(ch)
           read == SubSeq(s, i + 1, j)
           u00 == <<"\\", "u", "0", "0", HexChar(c \div 16), HexChar(c % 16)>>
       IN IF c >= 32 /\ c <= 127 /\ ch \notin { "\\", "\"", "<", ">", "&" }
          THEN encodeLoop(s, i, j + 1)
          ELSE IF ch \in { "\\", "\"" }
          THEN read \o <<"\\", ch>> \o encodeLoop(s, j + 1, j + 1)
          ELSE IF ch = "\n" THEN read \o <<"\\", "n">> \o encodeLoop(s, j + 1, j + 1)
          ELSE IF ch = "\r" THEN read \o <<"\\", "r">> \o encodeLoop(s, j + 1, j + 1)
          ELSE IF ch = "\t" THEN read \o <<"\\", "t">> \o encodeLoop(s, j + 1, j + 1)
          ELSE IF ch \in { "<", ">", "&" } \/ c < 32
          THEN read \o u00 \o encodeLoop(s, j + 1, j + 1)
          ELSE LET d == DecodeRuneInString(s, j)
               IN IF d.r = 65533 /\ d.size = 1
                  THEN read \o <<"\\", "u", "f", "f", "f", "d">>
                         \o encodeLoop(s, j + 1, j + 1)
                  ELSE IF d.r \in { 8232, 8233 }
                  THEN read \o <<"\\", "u", "2", "0", "2", HexChar(d.r % 16)>>
                         \o encodeLoop(s, j + d.size, j + d.size)
                  ELSE encodeLoop(s, i, j + d.size)

\* encodeString(b, s): what it writes to the buffer (escapeHTML := true)
encodeString(s) ==
  IF Len(s) = 0 THEN <<"\"", "\"">>
  ELSE LET j == IF Len(s) >= 8 THEN escapeIndex(s, TRUE) ELSE 0
       IN IF Len(s) >= 8 /\ j < 0 THEN <<"\"">> \o s \o <<"\"">>
          ELSE <<"\"">> \o encodeLoop(s, 0, j) \o <<"\"">>

\* njson.Append of a number text as it would be if it wrote the shortest
\* text of the same number
scalar2json_shortest(v) ==
  IF v.t = "int" THEN Sprint(v.n)
  ELSE IF v.t = "num" THEN TrimSuffix(v.s, <<".", "0">>)
  ELSE IF v.t = "str" THEN encodeString(v.s)
  ELSE IF v.t = "bool" THEN (IF v.b THEN <<"t", "r", "u", "e">>
                                   ELSE <<"f", "a", "l", "s", "e">>)
  ELSE IF v.t = "doc" /\ v.n # NilDoc THEN <<"{", "}">>
  ELSE <<"n", "u", "l", "l">>

\* njson.Append(buf, v, njson.EscapeHTML) of a value that is no time.Time: an
\* int in decimal, a json.Number as its text, a string quoted and escaped as
\* encodeString escapes it, a bool, {} for a *DynamicJSON (a struct without
\* exported fields), null for nil
scalar2json(v) ==
  IF v.t = "int" THEN Sprint(v.n)
  ELSE IF v.t = "num" THEN v.s
  ELSE IF v.t = "str" THEN encodeString(v.s)
  ELSE IF v.t = "bool" THEN (IF v.b THEN <<"t", "r", "u", "e">>
                                   ELSE <<"f", "a", "l", "s", "e">>)
  ELSE IF v.t = "doc" /\ v.n # NilDoc THEN <<"{", "}">>
  ELSE <<"n", "u", "l", "l">>

gPrettyIdent == <<" ", " ">>
gEndLine == <<"\n">>

RECURSIVE writeTo(_, _, _, _)
RECURSIVE writeArrayFrom(_, _, _, _, _)
RECURSIVE writeMapFrom(_, _, _, _, _, _)

\* the range loop over an array's values, from element idx (0-based) on
writeArrayFrom(h, self, pretty, nestedIdent, idx) ==
  IF idx >= Len(h[self].values) THEN <<>>
  ELSE LET v == h[self].values[idx + 1]
           sep == IF idx # 0
                  THEN <<",">> \o (IF pretty THEN gEndLine \o nestedIdent ELSE <<>>)
                  ELSE <<>>
           body == IF IsDoc(v) THEN writeTo(h, v.n, pretty, nestedIdent)
                   ELSE scalar2json(v)
       IN sep \o body \o writeArrayFrom(h, self, pretty, nestedIdent, idx + 1)

\* the loop over a map's slots as it would be if it wrote the comma by the
\* slot's index, not by the count of the entries written
writeMapFrom_commaBySlot(h, self, pretty, nestedIdent, i0, idx) ==
  LET i == NextLiveSlot(h[self].values, i0) IN
  IF i < 0 THEN <<>>
  ELSE LET v == h[self].values[i + 1] IN
         LET sep == IF i # 0
                    THEN <<",">> \o (IF pretty THEN gEndLine \o nestedIdent ELSE <<>>)
                    ELSE <<>>
             kv == encodeString(h[self].ordKeys[i + 1])
                     \o (IF pretty THEN <<":", " ">> ELSE <<":">>)
             body == IF IsDoc(v) THEN writeTo(h, v.n, pretty, nestedIdent)
                     ELSE scalar2json(v)
         IN sep \o kv \o body \o writeMapFrom(h, self, pretty, nestedIdent, i + 1, idx + 1)

\* the range loop over a map's slots, from slot i (0-based); idx counts the
\* entries written so far
writeMapFrom(h, self, pretty, nestedIdent, i0, idx) ==
  LET i == NextLiveSlot(h[self].values, i0) IN
  IF i < 0 THEN <<>>
  ELSE LET v == h[self].values[i + 1] IN
         LET sep == IF idx # 0
                    THEN <<",">> \o (IF pretty THEN gEndLine \o nestedIdent ELSE <<>>)
                    ELSE <<>>
             kv == encodeString(h[self].ordKeys[i + 1])
                     \o (IF pretty THEN <<":", " ">> ELSE <<":">>)
             body == IF IsDoc(v) THEN writeTo(h, v.n, pretty, nestedIdent)
                     ELSE scalar2json(v)
         IN sep \o kv \o body \o writeMapFrom(h, self, pretty, nestedIdent, i + 1, idx + 1)

\* writeTo as it would be without the early return for an empty container
writeTo_noEmptyCase(h, self, pretty, ident) ==
  LET nestedIdent == IF pretty THEN ident \o gPrettyIdent ELSE ident
      open == IF pretty THEN gEndLine \o nestedIdent ELSE <<>>
      close == IF pretty THEN gEndLine \o ident ELSE <<>>
  IN IF IsArray(h, self)
     THEN <<"[">> \o open \o writeArrayFrom(h, self, pretty, nestedIdent, 0)
            \o close \o <<"]">>
     ELSE <<"{">> \o open \o writeMapFrom(h, self, pretty, nestedIdent, 0, 0)
            \o close \o <<"}">>

\* writeTo as it would be if the closing bracket stood at the indentation of
\* the elements
writeTo_closeAtNested(h, self, pretty, ident) ==
  LET nestedIdent == IF pretty THEN ident \o gPrettyIdent ELSE ident
      open == IF pretty THEN gEndLine \o nestedIdent ELSE <<>>
      close == IF pretty THEN gEndLine \o nestedIdent ELSE <<>>
  IN IF IsArray(h, self)
     THEN IF Len_(h, self) = 0 THEN <<"[", "]">>
          ELSE <<"[">> \o open \o writeArrayFrom(h, self, pretty, nestedIdent, 0)
                 \o close \o <<"]">>
     ELSE IF Len_(h, self) = 0 THEN <<"{", "}">>
          ELSE <<"{">> \o open \o writeMapFrom(h, self, pretty, nestedIdent, 0, 0)
                 \o close \o <<"}">>

writeTo(h, self, pretty, ident) ==
  LET nestedIdent == IF pretty THEN ident \o gPrettyIdent ELSE ident
      open == IF pretty THEN gEndLine \o nestedIdent ELSE <<>>
      close == IF pretty THEN gEndLine \o ident ELSE <<>>
  IN IF IsArray(h, self)
     THEN IF Len_(h, self) = 0 THEN <<"[", "]">>
          ELSE <<"[">> \o open \o writeArrayFrom(h, self, pretty, nestedIdent, 0)
                 \o close \o <<"]">>
     ELSE IF Len_(h, self) = 0 THEN <<"{", "}">>
          ELSE <<"{">> \o open \o writeMapFrom(h, self, pretty, nestedIdent, 0, 0)
                 \o close \o <<"}">>

JSON(h, self) == writeTo(h, self, TRUE, <<>>)

JSONLine(h, self) == writeTo(h, self, FALSE, <<>>)

(***************************************************************************)
(* Parser.  njson.Tokenizer cuts the text into tokens: Next() steps over   *)
(* white space and reads one token, a delimiter ({ } [ ] , :), a string, a *)
(* number or a literal, and leaves its kind, its raw text (Value, a string *)
(* with its quotes) and, for a delimiter, Delim.  Remaining() is what      *)
(* follows the token, so strData[start:end] in token2value is the raw text *)
(* of the token.  The texts read here are well-formed.                     *)
(***************************************************************************)
NoToken == [kind |-> "Undefined", delim |-> "", value |-> <<>>]

RECURSIVE SkipSpaces(_, _)
\* the first position at or after i that holds no white space
SkipSpaces(s, i) ==
  IF i <= Len(s) /\ s[i] \in { " ", "\n" } THEN SkipSpaces(s, i + 1) ELSE i

RECURSIVE StringEnd(_, _)
\* the position of the quote that closes a string whose content starts at i,
\* or 0: a backslash takes the character behind it along
StringEnd(s, i) ==
  IF i > Len(s) THEN 0
  ELSE IF s[i] = "\"" THEN i
  ELSE IF s[i] = "\\" THEN StringEnd(s, i + 2)
  ELSE StringEnd(s, i + 1)

RECURSIVE NumberEnd(_, _)
\* the position of the last character of the number that starts at i
NumberEnd(s, i) ==
  IF i < Len(s) /\ s[i + 1] \in Digits \cup { "-", "+", ".", "e", "E" } THEN NumberEnd(s, i + 1) ELSE i

\* a tokenizer over the text s that has read nothing yet
NewTokenizer(s) == [s |-> s, pos |-> 1, cur |-> NoToken, err |-> FALSE]

\* tok.Next(): the tokenizer after the step, and whether it has read a token
TokNext(tok) ==
  LET s == tok.s
      i == SkipSpaces(s, tok.pos)
      Literal(word) == i + Len(word) - 1 <= Len(s) /\ SubSeq(s, i, i + Len(word) - 1) = word
      stop(e) == [tok |-> [tok EXCEPT !.pos = Len(s) + 1, !.cur = NoToken, !.err = e],
                  ok |-> FALSE]
      read(kind, delim, j) ==
        [tok |-> [tok EXCEPT !.pos = j + 1,
                             !.cur = [kind |-> kind, delim |-> delim,
                                      value |-> SubSeq(s, i, j)]],
         ok |-> TRUE]
  IN IF tok.err THEN [tok |-> tok, ok |-> FALSE]
     ELSE IF i > Len(s) THEN stop(FALSE)
     ELSE IF s[i] \in { "{", "}", "[", "]", ",", ":" }
       THEN read(IF s[i] = "{" THEN "Object" ELSE IF s[i] = "[" THEN "Array"
                 ELSE "Undefined", s[i], i)
     ELSE IF s[i] = "\""
       THEN LET j == StringEnd(s, i + 1) IN
            IF j = 0 THEN stop(TRUE)
            ELSE read(IF \E k \in (i + 1)..(j - 1) : s[k] = "\\" THEN "String"
                      ELSE "Unescaped", "", j)
     ELSE IF s[i] \in Digits \cup { "-" } THEN read("Num", "", NumberEnd(s, i))
     ELSE IF Literal(<<"n", "u", "l", "l">>) THEN read("Null", "", i + 3)
     ELSE IF Literal(<<"t", "r", "u", "e">>) THEN read("True", "", i + 3)
     ELSE IF Literal(<<"f", "a", "l", "s", "e">>) THEN read("False", "", i + 4)
     ELSE stop(TRUE)

RECURSIVE Unescape(_)
\* the content of a string token without its escapes: \u00XY is the character
\* of the byte XY, a backslash before any other character that character
Unescape(s) ==
  LET HexValue(c) == CHOOSE n \in 0..15 : HexChar(n) = c
      ByteChar(b) == CHOOSE c \in { "/", "\"", "&", "<", ">", "\\", "a", "b", "c", "x" }
                                    \cup Digits : Byte(c) = b
  IN IF s = <<>> THEN <<>>
     ELSE IF s[1] # "\\" THEN <<s[1]>> \o Unescape(Tail(s))
     ELSE IF s[2] = "u"
       THEN <<ByteChar(HexValue(s[5]) * 16 + HexValue(s[6]))>>
              \o Unescape(SubSeq(s, 7, Len(s)))
     ELSE <<s[2]>> \o Unescape(SubSeq(s, 3, Len(s)))

\* strData[start+1 : end-1]: the raw text of a string token without its quotes
Unquoted(value) == SubSeq(value, 2, Len(value) - 1)

\* tok.String(): the string a string token denotes
TokString(tok) == Unescape(Unquoted(tok.cur.value))

RECURSIVE token2value(_, _)
RECURSIVE token2array(_, _, _)
RECURSIVE token2object(_, _, _)

\* the loop of the Array case, r being the array under construction
token2array(h, tok0, r) ==
  LET n == TokNext(tok0)
      tok == n.tok
  IN IF ~n.ok \/ tok.err \/ tok.cur.delim = "]"
     THEN [h |-> h, tok |-> tok, v |-> VDoc(r)]
     ELSE LET m == IF tok.cur.delim = "," THEN TokNext(tok) ELSE [tok |-> tok, ok |-> TRUE]
          IN IF ~m.ok THEN [h |-> h, tok |-> m.tok, v |-> VDoc(r)]
             ELSE LET e == token2value(h, m.tok)
                  IN token2array([e.h EXCEPT ![r].values = Append(@, e.v)], e.tok, r)

\* the loop of the Object case as it would be if it stored an entry through
\* Set, which reads the key as a path
token2object_byPath(h, tok0, r) ==
  LET n == TokNext(tok0)
      tok == n.tok
  IN IF ~n.ok \/ tok.err
     THEN [h |-> h, tok |-> tok, v |-> VDoc(r)]
     ELSE LET m == IF tok.cur.delim = "," THEN TokNext(tok) ELSE [tok |-> tok, ok |-> TRUE]
          IN IF ~m.ok \/ m.tok.cur.delim = "}"
             THEN [h |-> h, tok |-> m.tok, v |-> VDoc(r)]
             ELSE LET key == IF m.tok.cur.kind = "Unescaped" /\ Len(m.tok.cur.value) > 1
                             THEN Unquoted(m.tok.cur.value)
                             ELSE TokString(m.tok)
                      colon == TokNext(m.tok)
                      val == TokNext(colon.tok)
                  IN IF ~val.ok THEN [h |-> h, tok |-> val.tok, v |-> VDoc(r)]
                     ELSE LET e == token2value(h, val.tok)
                          IN token2object(Set(e.h, r, key, e.v), e.tok, r)

\* the loop of the Object case, r being the map under construction
token2object(h, tok0, r) ==
  LET n == TokNext(tok0)
      tok == n.tok
  IN IF ~n.ok \/ tok.err
     THEN [h |-> h, tok |-> tok, v |-> VDoc(r)]
     ELSE LET m == IF tok.cur.delim = "," THEN TokNext(tok) ELSE [tok |-> tok, ok |-> TRUE]
          IN IF ~m.ok \/ m.tok.cur.delim = "}"
             THEN [h |-> h, tok |-> m.tok, v |-> VDoc(r)]
             ELSE LET key == IF m.tok.cur.kind = "Unescaped" /\ Len(m.tok.cur.value) > 1
                             THEN Unquoted(m.tok.cur.value)
                             ELSE TokString(m.tok)
                      colon == TokNext(m.tok)
                      val == TokNext(colon.tok)
                  IN IF ~val.ok THEN [h |-> h, tok |-> val.tok, v |-> VDoc(r)]
                     ELSE LET e == token2value(h, val.tok)
                          IN token2object(set(e.h, r, key, e.v).h, e.tok, r)

\* the value that starts with the token just read
token2value(h, tok) ==
  LET kind == tok.cur.kind
      scalar(v) == [h |-> h, tok |-> tok, v |-> v]
  IN IF kind = "Array" THEN token2array(Append(h, NewArray), tok, Len(h) + 1)
     ELSE IF kind = "Object" THEN token2object(Append(h, NewMap), tok, Len(h) + 1)
     ELSE IF kind = "False" THEN scalar(VBool(FALSE))
     ELSE IF kind = "True" THEN scalar(VBool(TRUE))
     ELSE IF kind = "Null" THEN scalar(VNil)
     ELSE IF kind = "Unescaped" THEN scalar(VStr(Unquoted(tok.cur.value)))
     ELSE IF kind = "String" THEN scalar(VStr(TokString(tok)))
     ELSE IF kind = "Num" THEN scalar(VNum(tok.cur.value))
     ELSE [h |-> h, tok |-> [tok EXCEPT !.err = TRUE], v |-> VNil]

\* Parse as it would be if the error quoted the whole input
Parse_wholeInput(h, data) ==
  LET first == TokNext(NewTokenizer(data)).tok
  IN IF first.cur.delim # "{" /\ first.cur.delim # "["
     THEN [h |-> h, d |-> NilDoc, err |-> TRUE, part |-> data]
     ELSE LET r == token2value(h, first)
          IN IF r.tok.err THEN [h |-> h, d |-> NilDoc, err |-> TRUE, part |-> <<>>]
             ELSE IF IsDoc(r.v) THEN [h |-> r.h, d |-> r.v.n, err |-> FALSE, part |-> <<>>]
             ELSE [h |-> h, d |-> NilDoc, err |-> TRUE, part |-> <<>>]

\* Parse(data): the heap with the documents of the text, the root, and the
\* error; on an error nothing of what was built is handed out.  part is the
\* piece of the input that the error "is not a map or array" quotes: the
\* input, cut to its first 50 bytes
Parse(h, data) ==
  LET first == TokNext(NewTokenizer(data)).tok
  IN IF first.cur.delim # "{" /\ first.cur.delim # "["
     THEN [h |-> h, d |-> NilDoc, err |-> TRUE,
           part |-> IF Len(data) > 50 THEN SubSeq(data, 1, 50) ELSE data]
     ELSE LET r == token2value(h, first)
          IN IF r.tok.err THEN [h |-> h, d |-> NilDoc, err |-> TRUE, part |-> <<>>]
             ELSE IF IsDoc(r.v) THEN [h |-> r.h, d |-> r.v.n, err |-> FALSE, part |-> <<>>]
             ELSE [h |-> h, d |-> NilDoc, err |-> TRUE, part |-> <<>>]

(***************************************************************************)
(* Iteration.  A call of Iterate or EachPair that has reached a callback   *)
(* is a frame on the stack `iters`: the container, the slot whose callback *)
(* is running, whether the deferred decrement was registered, and (for the *)
(* range loop of EachPair over an array) the length the loop was started   *)
(* with.  The callback is caller code: it may call any operation before it *)
(* returns true or false.                                                  *)
(***************************************************************************)
\* the entry of an iteration as it would be if it counted on a frozen map too
IterateEnter_alwaysCounts(h, self) ==
  IF ~IsArray(h, self)
  THEN [h |-> [h EXCEPT ![self].iterCounter = @ + 1], dec |-> TRUE]
  ELSE [h |-> h, dec |-> FALSE]

\* if self.iterCounter >= 0 { self.iterCounter++; defer ... }
IterateEnter(h, self) ==
  IF ~IsArray(h, self) /\ h[self].iterCounter >= 0
  THEN [h |-> [h EXCEPT ![self].iterCounter = @ + 1], dec |-> TRUE]
  ELSE [h |-> h, dec |-> FALSE]

\* the first slot at or after i (0-based) whose callback the loop invokes, or -1
IterateNext(h, self, i, lim) ==
  IF IsArray(h, self)
  THEN IF i < (IF lim >= 0 THEN lim ELSE Len(h[self].values)) THEN i ELSE 0 - 1
  ELSE NextLiveSlot(h[self].values, i)

\* the loop as it would be if it took no notice of what the callback returns
IterateStep_noBreak(h, self, i, lim, continue) == IterateNext(h, self, i + 1, lim)

\* the callback invoked for slot i has returned: on false the loop breaks,
\* on true it goes on to the next slot it calls back for, or ends (-1)
IterateStep(h, self, i, lim, continue) ==
  IF continue THEN IterateNext(h, self, i + 1, lim) ELSE 0 - 1

\* the end of Iterate as it would be without the deferred decrement
IterateExit_noDecrement(h, self, dec) ==
  IF IsArray(h, self) THEN h ELSE packing(h, self)

\* end of Iterate on a map: self.packing(), then the deferred decrement
IterateExit(h, self, dec) ==
  IF IsArray(h, self) THEN h
  ELSE LET h1 == packing(h, self)
       IN IF dec THEN [h1 EXCEPT ![self].iterCounter = @ - 1] ELSE h1

\* end of EachPair on a map: g.packing(), then the deferred decrement
EachPairExit(h, g, dec) ==
  IF IsArray(h, g) THEN h
  ELSE LET h1 == packing(h, g)
       IN IF dec THEN [h1 EXCEPT ![g].iterCounter = @ - 1] ELSE h1

(***************************************************************************)
(* StrMap.                                                                 *)
(***************************************************************************)
NoStrMap == [alive |-> FALSE, keys |-> NoKeys, values |-> <<>>, iterCounter |-> 0]

NewStrMap == [alive |-> TRUE, keys |-> NoKeys, values |-> <<>>, iterCounter |-> 0]

mapEntry(key, value) == [key |-> key, value |-> value]

StrMapSet(m, key, value) ==
  IF key \in DOMAIN m.keys
  THEN [m EXCEPT !.values[m.keys[key] + 1].value = value]
  ELSE [m EXCEPT !.keys = MapPut(m.keys, key, Len(m.values)),
                 !.values = Append(m.values, mapEntry(key, value))]

StrMapGet(m, key) ==
  IF ~m.alive THEN [v |-> VNil, ok |-> FALSE]
  ELSE IF key \notin DOMAIN m.keys THEN [v |-> VNil, ok |-> FALSE]
  ELSE [v |-> m.values[m.keys[key] + 1].value, ok |-> TRUE]

StrMapLen(m) == IF ~m.alive THEN 0 ELSE Cardinality(DOMAIN m.keys)

StrMapHas(m, key) == IF ~m.alive THEN FALSE ELSE key \in DOMAIN m.keys

StrMapLive(m) == SelectSeq([i \in 1..Len(m.values) |-> i],
                           LAMBDA i : m.values[i].value # gDeletedEntry)

RECURSIVE StrMapPackKeys(_, _, _)
StrMapPackKeys(keys, values, j) ==
  IF j >= Len(values) THEN keys
  ELSE StrMapPackKeys(MapPut(keys, values[j + 1].key, j), values, j + 1)

\* a StrMap that never compacts
StrMapPacking_never(m) == m

StrMapPacking(m) ==
  IF ~m.alive \/ m.iterCounter > 0 THEN m
  ELSE IF Len(m.values) >= PackMinSlots /\ Cardinality(DOMAIN m.keys) * 3 < Len(m.values)
    THEN LET live == StrMapLive(m)
             values == [j \in 1..Cardinality(DOMAIN m.keys) |-> m.values[live[j]]]
         IN [m EXCEPT !.values = values,
                      !.keys = StrMapPackKeys(m.keys, values, 0)]
    ELSE m

StrMapDelete(m, key) ==
  IF ~m.alive THEN m
  ELSE IF key \notin DOMAIN m.keys THEN m
  ELSE StrMapPacking([m EXCEPT !.values[m.keys[key] + 1] = mapEntry(<<>>, gDeletedEntry),
                               !.keys = MapDelete(m.keys, key)])

\* the keys StrMap.Iterate reports, in order
StrMapKeys(m) ==
  LET live == StrMapLive(m) IN [j \in 1..Len(live) |-> m.values[live[j]].key]

\* the first slot at or after i (0-based) the loop calls back for, or -1
StrMapIterateNext(m, i) ==
  LET S == {j \in i..(Len(m.values) - 1) : m.values[j + 1].value # gDeletedEntry}
  IN IF S = {} THEN 0 - 1 ELSE CHOOSE j \in S : \A k \in S : j <= k

\* the callback invoked for slot i has returned: false breaks the loop
StrMapIterateStep(m, i, continue) ==
  IF continue THEN StrMapIterateNext(m, i + 1) ELSE 0 - 1

\* end of StrMap.Iterate: self.packing(), then the deferred decrement
StrMapIterateExit(m) == [StrMapPacking(m) EXCEPT !.iterCounter = @ - 1]

(***************************************************************************)
(* Reachability between documents, and what the garbage collector drops.   *)
(***************************************************************************)
Children(h, d) == {h[d].values[i].n : i \in {j \in 1..Len(h[d].values) : IsDoc(h[d].values[j])}}

RECURSIVE ReachSet(_, _)
\* the documents reachable from the documents of S (S included)
ReachSet(h, S) ==
  LET T == S \cup UNION {Children(h, d) : d \in S}
  IN IF T = S THEN S ELSE ReachSet(h, T)

Reach(h, d) == ReachSet(h, {d})

\* the documents Freeze recurses into from d: it returns at once on a frozen one
UnfrozenChildren(h, d) == {c \in Children(h, d) : h[c].iterCounter >= 0}

RECURSIVE UnfrozenReachSet(_, _)
UnfrozenReachSet(h, S) ==
  LET T == S \cup UNION {UnfrozenChildren(h, d) : d \in S}
  IN IF T = S THEN S ELSE UnfrozenReachSet(h, T)

\* Freeze marks a document only after its children: on a cycle of unfrozen
\* documents the recursion never returns and the goroutine stack overflows
FreezeOverflows(h, self) ==
  /\ self # NilDoc
  /\ h[self].iterCounter >= 0
  /\ \E x \in UnfrozenReachSet(h, {self}) :
        x \in UnfrozenReachSet(h, UnfrozenChildren(h, x))

\* documents allocated by a call (those after n0) that nothing reaches once
\* the call has returned are dropped
Collect(h, n0) ==
  LET keep == ReachSet(h, 1..n0)
      n == Cardinality(keep)
  IN IF keep = 1..n THEN SubSeq(h, 1, n) ELSE h

(***************************************************************************)
(* Inputs of the calls.                                                    *)
(***************************************************************************)
Paths == { <<>>, <<"a">>, <<"b">>, <<"0">>,
           <<"a", "/", "b">>, <<"a", "/", "0">>,
           <<"a", "/", "0", "/", "b">>,
           <<"a", "/">>, <<"a", "/", "/", "b">>, <<"a", "/", "a">> }

\* the paths the calls of Spec are made with
SetPaths == { <<"a">>, <<"0">>, <<"a", "/", "0", "/", "b">> }

DeletePaths == { <<"a">>, <<"0">>, <<"a", "/", "0">> }

ReadPaths == { <<"a">>, <<"a", "/", "0", "/", "b">> }

PackKeys == { <<>>, <<"a">>, <<"b">>, <<"c">> }

Indexes == { 0 - 1, 0, 1 }

SetIndexes == { 0, 1 }

\* the names Array and Map are called with
AccessorNames == { <<"a">>, <<"0">> }

Scalars == { VNil, VInt(1) }

DocIds(h) == 1..Len(h)

Values(h) == Scalars \cup { VDoc(x) : x \in DocIds(h) }

\* the lengths of a backing sequence the model follows: short ones, and the
\* ones around the compaction threshold
SlotsOK(n) ==
  \/ n <= MaxSlots
  \/ n >= PadSlots /\ n <= PackMinSlots

Bounded(h) ==
  /\ Len(h) <= MaxDocs
  /\ \A d \in DocIds(h) : SlotsOK(Len(h[d].values))

\* a map that Set(key)/Delete(key) left with n tombstoned slots
TombstonedMap(n, key) ==
  [NewMap EXCEPT !.values = [i \in 1..n |-> gDeletedEntry],
                 !.ordKeys = [i \in 1..n |-> key]]

TombstonedStrMap(n) ==
  [NewStrMap EXCEPT !.values = [i \in 1..n |-> mapEntry(<<>>, gDeletedEntry)]]

(***************************************************************************)
(* Calls of the public API.  `last` tells a call that reads from one that   *)
(* may write.                                                              *)
(***************************************************************************)
Running == ~panicked

NewMapCall ==
  /\ Running /\ Len(docs) < MaxDocs
  /\ docs' = Append(docs, NewMap)
  /\ last' = "new"
  /\ UNCHANGED <<sm, iters, panicked>>

NewArrayCall ==
  /\ Running /\ Len(docs) < MaxDocs
  /\ docs' = Append(docs, NewArray)
  /\ last' = "new"
  /\ UNCHANGED <<sm, iters, panicked>>

SetCall(d, path, v) ==
  /\ Running
  /\ LET h == Collect(Set(docs, d, path, v), Len(docs))
     IN Bounded(h) /\ docs' = h
  /\ last' = "call"
  /\ UNCHANGED <<sm, iters, panicked>>

\* Array, ArrayI, Map and MapI; the caller drops the document it is handed
CreateCall(r) ==
  /\ Running
  /\ LET h == Collect(r.h, Len(docs))
     IN Bounded(h) /\ docs' = h
  /\ panicked' = r.panic
  /\ last' = "call"
  /\ UNCHANGED <<sm, iters>>

SetICall(d, i, v) ==
  /\ Running
  /\ LET h == SetI(docs, d, i, v).h
     IN Bounded(h) /\ docs' = h
  /\ last' = "call"
  /\ UNCHANGED <<sm, iters, panicked>>

DeleteCall(d, path) ==
  /\ Running
  /\ docs' = Delete(docs, d, path).h
  /\ last' = "call"
  /\ UNCHANGED <<sm, iters, panicked>>

ClearCall(d) ==
  /\ Running
  /\ docs' = Clear(docs, d)
  /\ last' = "call"
  /\ UNCHANGED <<sm, iters, panicked>>

FreezeCall(d) ==
  /\ Running
  /\ IF FreezeOverflows(docs, d)
     THEN panicked' = TRUE /\ UNCHANGED docs
     ELSE docs' = Freeze(docs, d) /\ UNCHANGED panicked
  /\ last' = "call"
  /\ UNCHANGED <<sm, iters>>

AppendCall(d, v) ==
  /\ Running
  /\ LET h == Append_(docs, d, v)
     IN Bounded(h) /\ docs' = h
  /\ last' = "call"
  /\ UNCHANGED <<sm, iters, panicked>>

\* GetI(i) and NestedI(i): nothing is written; an index out of range panics
GetICall(d, i) ==
  /\ Running
  /\ panicked' = GetI(docs, d, i).panic
  /\ last' = "read"
  /\ UNCHANGED <<docs, sm, iters>>

NestedICall(d, i) ==
  /\ Running
  /\ panicked' = NestedI(docs, d, i).panic
  /\ last' = "read"
  /\ UNCHANGED <<docs, sm, iters>>

FetchCall(d, path) ==
  /\ Running
  /\ docs' = Fetch(docs, d, path).h
  /\ last' = "read"
  /\ UNCHANGED <<sm, iters, panicked>>

GetCall(d, path) ==
  /\ Running
  /\ docs' = Get(docs, d, path).h
  /\ last' = "read"
  /\ UNCHANGED <<sm, iters, panicked>>

HasCall(d, path) ==
  /\ Running
  /\ docs' = Has(docs, d, path).h
  /\ last' = "read"
  /\ UNCHANGED <<sm, iters, panicked>>

NestedCall(d, path) ==
  /\ Running
  /\ docs' = Nested(docs, d, path).h
  /\ last' = "read"
  /\ UNCHANGED <<sm, iters, panicked>>

GetIntCall(d, path) ==
  /\ Running
  /\ docs' = GetInt(docs, d, path, 0).h
  /\ last' = "read"
  /\ UNCHANGED <<sm, iters, panicked>>

GetFloatCall(d, path) ==
  /\ Running
  /\ docs' = GetFloat(docs, d, path, 0).h
  /\ last' = "read"
  /\ UNCHANGED <<sm, iters, panicked>>

GetBoolCall(d, path) ==
  /\ Running
  /\ docs' = GetBool(docs, d, path, FALSE).h
  /\ last' = "read"
  /\ UNCHANGED <<sm, iters, panicked>>

GetStringCall(d, path) ==
  /\ Running
  /\ docs' = GetString(docs, d, path, <<>>).h
  /\ last' = "read"
  /\ UNCHANGED <<sm, iters, panicked>>

GetStrCall(d, path) ==
  /\ Running
  /\ docs' = GetStr(docs, d, path).h
  /\ last' = "read"
  /\ UNCHANGED <<sm, iters, panicked>>

GetSliceCall(d, path) ==
  /\ Running
  /\ docs' = GetSlice(docs, d, path).h
  /\ last' = "read"
  /\ UNCHANGED <<sm, iters, panicked>>

GetStringsSliceCall(d, path) ==
  /\ Running
  /\ docs' = GetStringsSlice(docs, d, path).h
  /\ last' = "read"
  /\ UNCHANGED <<sm, iters, panicked>>

GetAnySliceCall(d, path) ==
  /\ Running
  /\ docs' = GetAnySlice(docs, d, path).h
  /\ last' = "read"
  /\ UNCHANGED <<sm, iters, panicked>>

GetIntsSliceCall(d, path) ==
  /\ Running
  /\ docs' = GetIntsSlice(docs, d, path).h
  /\ last' = "read"
  /\ UNCHANGED <<sm, iters, panicked>>

\* Iterate(cb): up to the first callback, or to the end when there is none
IterateCall(d) ==
  /\ Running /\ Len(iters) < MaxIterDepth
  /\ IF d = NilDoc THEN UNCHANGED <<docs, iters>>
     ELSE LET e == IterateEnter(docs, d)
              j == IterateNext(e.h, d, 0, 0 - 1)
          IN IF j < 0
             THEN docs' = IterateExit(e.h, d, e.dec) /\ UNCHANGED iters
             ELSE /\ docs' = e.h
                  /\ iters' = Append(iters, [kind |-> "Iterate", d |-> d, i |-> j,
                                             dec |-> e.dec, lim |-> 0 - 1])
  /\ last' = "call"
  /\ UNCHANGED <<sm, panicked>>

\* EachPair(path) ranged over by the caller
EachPairCall(d, path) ==
  /\ Running /\ Len(iters) < MaxIterDepth
  /\ LET r == doOp(docs, d, path, FALSE, FALSE, VNil) IN
     IF r.ok /\ IsDoc(r.v)
     THEN LET g == r.v.n
              lim == IF IsArray(r.h, g) THEN Len(r.h[g].values) ELSE 0 - 1
              e == IterateEnter(r.h, g)
              j == IterateNext(e.h, g, 0, lim)
          IN IF j < 0
             THEN docs' = EachPairExit(e.h, g, e.dec) /\ UNCHANGED iters
             ELSE /\ docs' = e.h
                  /\ iters' = Append(iters, [kind |-> "EachPair", d |-> g, i |-> j,
                                             dec |-> e.dec, lim |-> lim])
     ELSE docs' = r.h /\ UNCHANGED iters
  /\ last' = "call"
  /\ UNCHANGED <<sm, panicked>>

\* the running callback returns: true goes on to the next entry, false breaks
CallbackReturn(continue) ==
  /\ Running /\ Len(iters) > 0
  /\ LET f == iters[Len(iters)] IN
     /\ f.kind # "StrMap"
     /\ LET j == IterateStep(docs, f.d, f.i, f.lim, continue)
        IN IF j < 0
           THEN /\ docs' = IF f.kind = "Iterate" THEN IterateExit(docs, f.d, f.dec)
                           ELSE EachPairExit(docs, f.d, f.dec)
                /\ iters' = SubSeq(iters, 1, Len(iters) - 1)
           ELSE /\ iters' = [iters EXCEPT ![Len(iters)].i = j]
                /\ UNCHANGED docs
  /\ last' = "call"
  /\ UNCHANGED <<sm, panicked>>

(***************************************************************************)
(* Calls on a StrMap.                                                      *)
(***************************************************************************)
StrMapSetCall(key, v) ==
  /\ Running /\ sm.alive
  /\ LET m == StrMapSet(sm, key, v)
     IN SlotsOK(Len(m.values)) /\ sm' = m
  /\ last' = "call"
  /\ UNCHANGED <<docs, iters, panicked>>

StrMapDeleteCall(key) ==
  /\ Running
  /\ sm' = StrMapDelete(sm, key)
  /\ last' = "call"
  /\ UNCHANGED <<docs, iters, panicked>>

StrMapIterateCall ==
  /\ Running /\ Len(iters) < MaxIterDepth
  /\ IF ~sm.alive THEN UNCHANGED <<sm, iters>>
     ELSE LET m == [sm EXCEPT !.iterCounter = @ + 1]
              j == StrMapIterateNext(m, 0)
          IN IF j < 0
             THEN sm' = StrMapIterateExit(m) /\ UNCHANGED iters
             ELSE /\ sm' = m
                  /\ iters' = Append(iters, [kind |-> "StrMap", d |-> NilDoc, i |-> j,
                                             dec |-> TRUE, lim |-> 0 - 1])
  /\ last' = "call"
  /\ UNCHANGED <<docs, panicked>>

StrMapCallbackReturn(continue) ==
  /\ Running /\ Len(iters) > 0
  /\ LET f == iters[Len(iters)] IN
     /\ f.kind = "StrMap"
     /\ LET j == StrMapIterateStep(sm, f.i, continue)
        IN IF j < 0
           THEN /\ sm' = StrMapIterateExit(sm)
                /\ iters' = SubSeq(iters, 1, Len(iters) - 1)
           ELSE /\ iters' = [iters EXCEPT ![Len(iters)].i = j]
                /\ UNCHANGED sm
  /\ last' = "call"
  /\ UNCHANGED <<docs, panicked>>

(***************************************************************************)
(* Spec: documents built, linked, frozen and read through paths.           *)
(***************************************************************************)
Init ==
  /\ docs = <<>>
  /\ sm = NoStrMap
  /\ iters = <<>>
  /\ last = "new"
  /\ panicked = FALSE
  /\ calls = MaxCalls

\* calls is the number of calls the program has still to make
Tick == calls > 0 /\ calls' = calls - 1

Next ==
  \/ Tick /\ NewMapCall
  \/ Tick /\ NewArrayCall
  \/ Tick /\ \E d \in DocIds(docs), path \in SetPaths, v \in Values(docs) : SetCall(d, path, v)
  \/ Tick /\ \E d \in DocIds(docs), i \in SetIndexes, v \in Scalars : SetICall(d, i, v)
  \/ Tick /\ \E d \in DocIds(docs), path \in DeletePaths : DeleteCall(d, path)
  \/ Tick /\ \E d \in DocIds(docs) : ClearCall(d)
  \/ Tick /\ \E d \in DocIds(docs) : FreezeCall(d)
  \/ Tick /\ \E d \in DocIds(docs), v \in Values(docs) : AppendCall(d, v)
  \/ Tick /\ \E d \in DocIds(docs) : IterateCall(d)
  \/ Tick /\ \E d \in DocIds(docs), path \in ReadPaths : EachPairCall(d, path)
  \/ UNCHANGED calls /\ \E b \in BOOLEAN : CallbackReturn(b)
  \/ Tick /\ \E d \in DocIds(docs), path \in ReadPaths : FetchCall(d, path)
  \/ Tick /\ \E d \in DocIds(docs), path \in ReadPaths : GetCall(d, path)
  \/ Tick /\ \E d \in DocIds(docs), path \in ReadPaths : HasCall(d, path)
  \/ Tick /\ \E d \in DocIds(docs), path \in ReadPaths : NestedCall(d, path)
  \/ Tick /\ \E d \in DocIds(docs), path \in ReadPaths : GetIntCall(d, path)
  \/ Tick /\ \E d \in DocIds(docs), path \in ReadPaths : GetFloatCall(d, path)
  \/ Tick /\ \E d \in DocIds(docs), path \in ReadPaths : GetBoolCall(d, path)
  \/ Tick /\ \E d \in DocIds(docs), path \in ReadPaths : GetStringCall(d, path)
  \/ Tick /\ \E d \in DocIds(docs), path \in ReadPaths : GetStrCall(d, path)
  \/ Tick /\ \E d \in DocIds(docs), path \in ReadPaths : GetSliceCall(d, path)
  \/ Tick /\ \E d \in DocIds(docs), path \in ReadPaths : GetStringsSliceCall(d, path)
  \/ Tick /\ \E d \in DocIds(docs), path \in ReadPaths : GetAnySliceCall(d, path)
  \/ Tick /\ \E d \in DocIds(docs), path \in ReadPaths : GetIntsSliceCall(d, path)

Spec == Init /\ [][Next]_vars

(***************************************************************************)
(* SpecCreate: documents built with the accessors that create, next to     *)
(* scalars stored by Set and SetI, tombstones and frozen documents.        *)
(***************************************************************************)
NextCreate ==
  \/ Tick /\ NewMapCall
  \/ Tick /\ NewArrayCall
  \/ Tick /\ \E d \in DocIds(docs), name \in AccessorNames, v \in Scalars : SetCall(d, name, v)
  \/ Tick /\ \E d \in DocIds(docs), name \in AccessorNames : DeleteCall(d, name)
  \/ Tick /\ \E d \in DocIds(docs) : FreezeCall(d)
  \/ Tick /\ \E d \in DocIds(docs), name \in AccessorNames : CreateCall(Array(docs, d, name))
  \/ Tick /\ \E d \in DocIds(docs), name \in AccessorNames : CreateCall(Map(docs, d, name))
  \/ Tick /\ \E d \in DocIds(docs), i \in SetIndexes : CreateCall(ArrayI(docs, d, i))
  \/ Tick /\ \E d \in DocIds(docs), i \in SetIndexes : CreateCall(MapI(docs, d, i))
  \/ Tick /\ \E d \in DocIds(docs) \cup {NilDoc}, i \in Indexes : GetICall(d, i)
  \/ Tick /\ \E d \in DocIds(docs) \cup {NilDoc}, i \in Indexes : NestedICall(d, i)

SpecCreate == Init /\ [][NextCreate]_vars

(***************************************************************************)
(* SpecNil: the reading calls, Delete and Iterate made on documents and on *)
(* the nil document, and Delete and Iterate on the nil StrMap.             *)
(***************************************************************************)
NextNil ==
  \/ Tick /\ NewMapCall
  \/ Tick /\ NewArrayCall
  \/ Tick /\ \E d \in DocIds(docs), path \in SetPaths, v \in Scalars : SetCall(d, path, v)
  \/ Tick /\ \E d \in DocIds(docs) \cup { NilDoc }, path \in Paths : FetchCall(d, path)
  \/ Tick /\ \E d \in DocIds(docs) \cup { NilDoc }, path \in Paths : GetCall(d, path)
  \/ Tick /\ \E d \in DocIds(docs) \cup { NilDoc }, path \in Paths : HasCall(d, path)
  \/ Tick /\ \E d \in DocIds(docs) \cup { NilDoc }, path \in Paths : DeleteCall(d, path)
  \/ Tick /\ \E d \in DocIds(docs) \cup { NilDoc } : IterateCall(d)
  \/ UNCHANGED calls /\ \E b \in BOOLEAN : CallbackReturn(b)
  \/ Tick /\ \E key \in PackKeys : StrMapDeleteCall(key)
  \/ Tick /\ StrMapIterateCall

SpecNil == Init /\ [][NextNil]_vars

\* the same program, followed for one call more
InitDeep ==
  /\ docs = <<>>
  /\ sm = NoStrMap
  /\ iters = <<>>
  /\ last = "new"
  /\ panicked = FALSE
  /\ calls = MaxCalls + 1

SpecDeep == InitDeep /\ [][Next]_vars

(***************************************************************************)
(* SpecPack: one map (or one StrMap) with single keys, around the          *)
(* compaction threshold and from empty, with re-entrant iteration.         *)
(***************************************************************************)
InitPack ==
  /\ \E n \in {0, PadSlots} :
        \/ docs = <<TombstonedMap(n, <<"a">>)>> /\ sm = NoStrMap
        \/ docs = <<>> /\ sm = TombstonedStrMap(n)
  /\ iters = <<>>
  /\ last = "new"
  /\ panicked = FALSE
  /\ calls = 0

NextPack ==
  \/ UNCHANGED calls /\ \E d \in DocIds(docs), key \in PackKeys, v \in Scalars : SetCall(d, key, v)
  \/ UNCHANGED calls /\ \E d \in DocIds(docs), key \in PackKeys : DeleteCall(d, key)
  \/ UNCHANGED calls /\ \E d \in DocIds(docs) : ClearCall(d)
  \/ UNCHANGED calls /\ \E d \in DocIds(docs) : IterateCall(d)
  \/ UNCHANGED calls /\ iters = <<>> /\ \E d \in DocIds(docs) : EachPairCall(d, <<>>)
  \/ UNCHANGED calls /\ \E b \in BOOLEAN : CallbackReturn(b)
  \/ UNCHANGED calls /\ \E key \in PackKeys, v \in Scalars : StrMapSetCall(key, v)
  \/ UNCHANGED calls /\ sm.alive /\ \E key \in PackKeys : StrMapDeleteCall(key)
  \/ UNCHANGED calls /\ sm.alive /\ StrMapIterateCall
  \/ UNCHANGED calls /\ \E b \in BOOLEAN : StrMapCallbackReturn(b)

SpecPack == InitPack /\ [][NextPack]_vars

(***************************************************************************)
(* IsEqualAsString.                                                        *)
(***************************************************************************)
RECURSIVE IsEqualAsString(_, _, _)
RECURSIVE EqualAsStringFrom(_, _, _, _)

\* the loops of IsEqualAsString over the slots of self from slot i (0-based)
\* on: an array element against the element of o at the same index, a live map
\* entry against the entry of o with the same key; scalar2str is njson.Append,
\* as in writeTo
EqualAsStringFrom(h, self, o, i) ==
  IF i >= Len(h[self].values) THEN TRUE
  ELSE LET value1 == h[self].values[i + 1] IN
    IF ~IsArray(h, self) /\ value1 = gDeletedEntry
    THEN EqualAsStringFrom(h, self, o, i + 1)
    ELSE IF ~IsArray(h, self) /\ h[self].ordKeys[i + 1] \notin DOMAIN h[o].keys
    THEN FALSE
    ELSE LET value2 == IF IsArray(h, self) THEN h[o].values[i + 1]
                       ELSE h[o].values[h[o].keys[h[self].ordKeys[i + 1]] + 1]
             same == IF IsDoc(value1) /\ IsDoc(value2)
                     THEN IsEqualAsString(h, value1.n, value2.n)
                     ELSE scalar2json(value1) = scalar2json(value2)
         IN same /\ EqualAsStringFrom(h, self, o, i + 1)

\* self.IsEqualAsString(o), for an o that is a document
IsEqualAsString(h, self, o) ==
  IF self = o THEN TRUE
  ELSE IF self = NilDoc THEN FALSE
  ELSE IF IsArray(h, self) # IsArray(h, o) THEN FALSE
  ELSE IF IsArray(h, self)
    THEN IF Len(h[self].values) # Len(h[o].values) THEN FALSE
         ELSE EqualAsStringFrom(h, self, o, 0)
  ELSE IF Cardinality(DOMAIN h[self].keys) # Cardinality(DOMAIN h[o].keys) THEN FALSE
  ELSE EqualAsStringFrom(h, self, o, 0)

(***************************************************************************)
(* Clone and IsEqual.                                                      *)
(***************************************************************************)
RECURSIVE Clone(_, _)
RECURSIVE CloneFrom(_, _, _, _)

\* the loops of Clone from slot i on, filling the new document x: an array
\* element is appended to x.values, a live map entry goes through
\* x.Set(self.ordKeys[i], cloneValue(v)), which reads the key as a path, and
\* the slots that hold gDeletedEntry are stepped over; cloneValue clones a
\* *DynamicJSON and returns any other value as it is
CloneFrom(h, self, x, i) ==
  LET j == IF IsArray(h, self)
           THEN IF i < Len(h[self].values) THEN i ELSE 0 - 1
           ELSE NextLiveSlot(h[self].values, i)
  IN IF j < 0 THEN h
     ELSE LET v == h[self].values[j + 1]
              c == IF IsDoc(v) THEN Clone(h, v.n) ELSE [h |-> h, d |-> NilDoc]
              cv == IF IsDoc(v) THEN VDoc(c.d) ELSE v
              h2 == IF IsArray(h, self)
                    THEN [c.h EXCEPT ![x].values = Append(@, cv)]
                    ELSE Set(c.h, x, h[self].ordKeys[j + 1], cv)
          IN CloneFrom(h2, self, x, j + 1)

\* self.Clone(): the heap with the new documents, and the clone
Clone(h, self) ==
  IF self = NilDoc THEN [h |-> h, d |-> NilDoc]
  ELSE LET x == Len(h) + 1
           h1 == Append(h, IF IsArray(h, self) THEN NewArray ELSE NewMap)
       IN [h |-> CloneFrom(h1, self, x, 0), d |-> x]

RECURSIVE IsEqual(_, _, _)
RECURSIVE IsEqualFrom(_, _, _, _)

\* the loops of IsEqual from slot i on: an array element against the element
\* of o at the same index, a live map entry against the entry of o with the
\* same key; two documents are compared with IsEqual, anything else with
\* reflect.DeepEqual
IsEqualFrom(h, self, o, i) ==
  IF i >= Len(h[self].values) THEN TRUE
  ELSE LET value1 == h[self].values[i + 1] IN
    IF ~IsArray(h, self) /\ value1 = gDeletedEntry
    THEN IsEqualFrom(h, self, o, i + 1)
    ELSE IF ~IsArray(h, self) /\ h[self].ordKeys[i + 1] \notin DOMAIN h[o].keys
    THEN FALSE
    ELSE LET value2 == IF IsArray(h, self) THEN h[o].values[i + 1]
                       ELSE h[o].values[h[o].keys[h[self].ordKeys[i + 1]] + 1]
             same == IF IsDoc(value1) /\ IsDoc(value2)
                     THEN IsEqual(h, value1.n, value2.n)
                     ELSE value1 = value2
         IN same /\ IsEqualFrom(h, self, o, i + 1)

\* self.IsEqual(o), for an o that is a document
IsEqual(h, self, o) ==
  IF self = o THEN TRUE
  ELSE IF self = NilDoc THEN FALSE
  ELSE IF IsArray(h, self) # IsArray(h, o) THEN FALSE
  ELSE IF IsArray(h, self)
    THEN IF Len(h[self].values) # Len(h[o].values) THEN FALSE
         ELSE IsEqualFrom(h, self, o, 0)
  ELSE IF Cardinality(DOMAIN h[self].keys) # Cardinality(DOMAIN h[o].keys) THEN FALSE
  ELSE IsEqualFrom(h, self, o, 0)

(***************************************************************************)
(* Inputs of the parser and of the calls that follow it.                   *)
(***************************************************************************)
\* the texts given to Parse:
\*   {"x":31167.0}
\*   {"x":100}
\*   [10,11]
\*   {"a":[{"b":1.50}]}
\*   [true,false]
\*   ["a","\u003c\""]
\*   {"a":null}
\*   { "a" : -2e1 ,\n"b\\" : [ ] }
\*   {}
\*   {"a/0":1,"":2,"a/0":3}
Texts == {
    <<"{", "\"", "a", "/", "0", "\"", ":", "1", ",", "\"", "\"", ":", "2", ",", "\"", "a", "/", "0", "\"", ":", "3", "}">>,
    <<"{", "\"", "x", "\"", ":", "3", "1", "1", "6", "7", ".", "0", "}">>,
    <<"{", "\"", "x", "\"", ":", "1", "0", "0", "}">>,
    <<"[", "1", "0", ",", "1", "1", "]">>,
    <<"{", "\"", "a", "\"", ":", "[", "{", "\"", "b", "\"", ":", "1", ".",
      "5", "0", "}", "]", "}">>,
    <<"[", "t", "r", "u", "e", ",", "f", "a", "l", "s", "e", "]">>,
    <<"[", "\"", "a", "\"", ",", "\"", "\\", "u", "0", "0", "3", "c", "\\",
      "\"", "\"", "]">>,
    <<"{", "\"", "a", "\"", ":", "n", "u", "l", "l", "}">>,
    <<"{", " ", "\"", "a", "\"", " ", ":", " ", "-", "2", "e", "1", " ", ",",
      "\n", "\"", "b", "\\", "\\", "\"", " ", ":", " ", "[", " ", "]", " ",
      "}">>,
    <<"{", "}">> }

\* the keys and indexes the calls on parsed and built documents use
JSONPaths == { <<"a">>, <<"0">>, <<"\"">> }

\* a null, a bool, a number text and a string with characters to escape
JSONScalars == { VNil, VBool(TRUE), VNum(<<"1", ".", "0">>), VStr(<<"<", "\"">>) }

JSONValues(h) == JSONScalars \cup { VDoc(x) : x \in DocIds(h) }

\* Parse(data): the documents of the text join the heap
ParseCall(data) ==
  /\ Running
  /\ LET r == Parse(docs, data)
     IN IF r.err THEN UNCHANGED docs ELSE Bounded(r.h) /\ docs' = r.h
  /\ last' = "call"
  /\ UNCHANGED <<sm, iters, panicked>>

(***************************************************************************)
(* SpecJSON: documents parsed from text and built through the calls, with  *)
(* bools, number texts and strings as values.                              *)
(***************************************************************************)
InitJSON ==
  /\ docs = <<>>
  /\ sm = NoStrMap
  /\ iters = <<>>
  /\ last = "new"
  /\ panicked = FALSE
  /\ calls = MaxCalls - 1

NextJSON ==
  \/ Tick /\ \E data \in Texts : ParseCall(data)
  \/ Tick /\ NewMapCall
  \/ Tick /\ NewArrayCall
  \/ Tick /\ \E d \in DocIds(docs), path \in JSONPaths, v \in JSONValues(docs) : SetCall(d, path, v)
  \/ Tick /\ \E d \in DocIds(docs), v \in JSONValues(docs) : AppendCall(d, v)
  \/ Tick /\ \E d \in DocIds(docs), path \in JSONPaths : DeleteCall(d, path)

SpecJSON == InitJSON /\ [][NextJSON]_vars

(***************************************************************************)
(* Vocabulary of the properties.                                           *)
(***************************************************************************)
RangeOf(q) == { q[i] : i \in 1..Len(q) }

Without(q, key) == SelectSeq(q, LAMBDA k : k # key)

\* no document under d is reachable from itself
Acyclic(h, d) == \A x \in Reach(h, d) : x \notin ReachSet(h, Children(h, x))

RECURSIVE Split(_)
\* the segments of a path, the empty ones included
Split(path) ==
  LET i == IndexByte(path, "/")
  IN IF i < 0 THEN <<path>>
     ELSE <<SliceTo(path, i)>> \o Split(SliceFrom(path, i + 1))

MultiSegment(path) == IndexByte(path, "/") >= 0

NoEmptySegment(path) == \A i \in 1..Len(Split(path)) : Split(path)[i] # <<>>

\* the keys Iterate hands to a callback that always returns true
RECURSIVE IterateOrder(_, _, _)
IterateOrder(h, d, i) ==
  LET j == IterateNext(h, d, i, 0 - 1)
  IN IF j < 0 THEN <<>> ELSE <<h[d].ordKeys[j + 1]>> \o IterateOrder(h, d, j + 1)

RECURSIVE StrMapIterateOrder(_, _)
StrMapIterateOrder(m, i) ==
  LET j == StrMapIterateNext(m, i)
  IN IF j < 0 THEN <<>> ELSE <<m.values[j + 1].key>> \o StrMapIterateOrder(m, j + 1)

\* a key is live in a map when a slot that is no tombstone records it, and in
\* an array when it is the decimal text of an index below the length
LiveKey(h, d, key) ==
  IF IsArray(h, d) THEN key2Index(key) >= 0 /\ key2Index(key) < Len(h[d].values)
  ELSE key \in RangeOf(Keys(h, d))

SingleKeys == { <<>>, <<"a">>, <<"b">>, <<"0">>, <<"1">> }

(***************************************************************************)
(* C1                                                                      *)
(***************************************************************************)
\* C1: on a Map (and a StrMap) Keys() and Iterate report the live keys in the
\* order of their last insertion: from any reachable state, Set on a live key
\* leaves the order as it is and stores the value, Set on a key that is not
\* live (never set, or deleted) puts it after every live key, and Delete takes
\* the key out and leaves the others in their order.
C1_InsertionOrder ==
  /\ \A d \in DocIds(docs) : ~IsArray(docs, d) /\ ~IsFrozen(docs, d) =>
       /\ IterateOrder(docs, d, 0) = Keys(docs, d)
       /\ \A key \in PackKeys \ {<<>>} :
            /\ Keys(Delete(docs, d, key).h, d) = Without(Keys(docs, d), key)
            /\ \A v \in Scalars :
                 LET h == Set(docs, d, key, v) IN
                 /\ Keys(h, d) = IF key \in RangeOf(Keys(docs, d))
                                 THEN Keys(docs, d)
                                 ELSE Append(Keys(docs, d), key)
                 /\ get(h, d, key) = [v |-> v, ok |-> TRUE]
  /\ sm.alive =>
       /\ StrMapIterateOrder(sm, 0) = StrMapKeys(sm)
       /\ \A key \in PackKeys :
            /\ StrMapKeys(StrMapDelete(sm, key)) = Without(StrMapKeys(sm), key)
            /\ \A v \in Scalars :
                 LET m == StrMapSet(sm, key, v) IN
                 /\ StrMapKeys(m) = IF key \in RangeOf(StrMapKeys(sm))
                                    THEN StrMapKeys(sm)
                                    ELSE Append(StrMapKeys(sm), key)
                 /\ StrMapGet(m, key) = [v |-> v, ok |-> TRUE]

\* a key was deleted and set again behind a key that stayed live
C1_Witness ==
  \E d \in DocIds(docs) :
    /\ ~IsArray(docs, d)
    /\ last = "call"
    /\ \E i, j, k \in 1..Len(docs[d].values) :
         /\ i < j /\ j < k
         /\ docs[d].values[i] = gDeletedEntry
         /\ docs[d].values[j] # gDeletedEntry
         /\ docs[d].values[k] # gDeletedEntry
         /\ docs[d].ordKeys[i] = docs[d].ordKeys[k]
         /\ Keys(docs, d) = <<docs[d].ordKeys[j], docs[d].ordKeys[k]>>

(***************************************************************************)
(* C2                                                                      *)
(***************************************************************************)
\* Len() counts the distinct live keys, and what Set and Delete of the keys
\* of K do to it on the unfrozen maps
LenFollowsKeys(K) ==
  \A d \in DocIds(docs) : ~IsArray(docs, d) /\ ~IsFrozen(docs, d) =>
    /\ Len_(docs, d) = Cardinality(RangeOf(Keys(docs, d)))
    /\ Len_(docs, d) = Len(Keys(docs, d))
    /\ \A key \in K :
         /\ \A v \in Scalars :
              Len_(Set(docs, d, key, v), d) =
                IF LiveKey(docs, d, key) THEN Len_(docs, d) ELSE Len_(docs, d) + 1
         /\ LiveKey(docs, d, key) => Len_(Delete(docs, d, key).h, d) = Len_(docs, d) - 1
         /\ ~LiveKey(docs, d, key) => Delete(docs, d, key).h = docs

\* C2 (as stated): for every single-segment key, the empty one included: Len()
\* is the number of distinct live keys, Set of a new key adds one, Set of a
\* live key adds none, Delete of a live key takes one, Delete of a key that is
\* not live changes nothing.
C2_Original == LenFollowsKeys(PackKeys)

\* C2 (amended): the same for every non-empty single-segment key; Set("")
\* stores nothing.
C2_LenCountsLiveKeys ==
  /\ LenFollowsKeys(PackKeys \ {<<>>})
  /\ \A d \in DocIds(docs), v \in Scalars : Set(docs, d, <<>>, v) = docs

\* a map that holds a live key behind a tombstoned slot
C2_Witness ==
  \E d \in DocIds(docs) :
    /\ ~IsArray(docs, d) /\ ~IsFrozen(docs, d)
    /\ last = "call"
    /\ Len_(docs, d) = 1
    /\ Len(docs[d].values) = 2
    /\ docs[d].values[1] = gDeletedEntry

(***************************************************************************)
(* C3                                                                      *)
(***************************************************************************)
\* C3: once d is frozen, no Set, SetI, Delete or Clear, on whatever document
\* and with whatever arguments, changes the length or the contents of d or of
\* a document reachable from d.
C3_FrozenStaysAsItIs ==
  \A f \in DocIds(docs) : IsFrozen(docs, f) =>
    \A x \in Reach(docs, f), t \in DocIds(docs) :
      /\ Clear(docs, t)[x] = docs[x]
      /\ \A p \in Paths :
           /\ Delete(docs, t, p).h[x] = docs[x]
           /\ \A v \in Values(docs) : Set(docs, t, p, v)[x] = docs[x]
      /\ \A i \in Indexes, v \in Values(docs) : SetI(docs, t, i, v).h[x] = docs[x]

(***************************************************************************)
(* C4                                                                      *)
(***************************************************************************)
\* C4: Append on a frozen Array is a no-op: nothing is added and no field of
\* any document changes.
C4_AppendOnFrozenIsNoOp ==
  \A d \in DocIds(docs) : IsArray(docs, d) /\ IsFrozen(docs, d) =>
    \A v \in Values(docs) : Append_(docs, d, v) = docs

(***************************************************************************)
(* C5                                                                      *)
(***************************************************************************)
\* C5: when IsFrozen() is true of d it is true of every document reachable
\* from d, at every later moment as well.
C5_FrozenIsClosed ==
  \A d \in DocIds(docs) : IsFrozen(docs, d) =>
    \A x \in Reach(docs, d) : IsFrozen(docs, x)

(***************************************************************************)
(* C6                                                                      *)
(***************************************************************************)
RECURSIVE DeleteTarget(_, _, _)
\* the container a Delete path addresses: the one that holds its last segment
DeleteTarget(h, self, path) ==
  IF self = NilDoc THEN NilDoc
  ELSE LET i == IndexByte(path, "/")
       IN IF i >= 0
          THEN DeleteTarget(h, Nested(h, self, SliceTo(path, i)).d, SliceFrom(path, i + 1))
          ELSE self

\* C6: SetI and Delete return an error when the container they address is
\* frozen, Delete with a path of several segments included.
C6_FrozenIsSignalled ==
  \A t \in DocIds(docs) :
    /\ IsFrozen(docs, t) =>
         \A i \in Indexes, v \in Scalars : SetI(docs, t, i, v).err
    /\ \A p \in Paths :
         LET c == DeleteTarget(docs, t, p)
         IN c # NilDoc /\ IsFrozen(docs, c) => Delete(docs, t, p).err

(***************************************************************************)
(* C7                                                                      *)
(***************************************************************************)
\* the segments of a path that doOp does not skip
Segments(path) == SelectSeq(Split(path), LAMBDA seg : seg # <<>>)

EndsInSlash(path) == Len(path) > 0 /\ path[Len(path)] = "/"

RECURSIVE ChainStored(_, _, _, _, _)
\* from level on, every segment but the last leads to a document that h0 did
\* not have, and the last one holds v
ChainStored(h0, h, level, segs, v) ==
  IF Len(segs) = 0 THEN FALSE
  ELSE IF Len(segs) = 1 THEN get(h, level, segs[1]) = [v |-> v, ok |-> TRUE]
  ELSE LET g == get(h, level, Head(segs))
       IN /\ g.ok /\ IsDoc(g.v) /\ g.v.n > Len(h0)
          /\ ChainStored(h0, h, g.v.n, Tail(segs), v)

\* Set(path, v) on d made one container per non-final segment, each in the
\* one before, and stored v under the final segment of the innermost
AutoCreated(h0, d, path, v) ==
  LET h == Set(h0, d, path, v)
  IN /\ Len(h) = Len(h0) + Len(Segments(path)) - 1
     /\ ChainStored(h0, h, d, Segments(path), convertToDJ(v))

EmptyMap(h, d) == ~IsArray(h, d) /\ ~IsFrozen(h, d) /\ Len_(h, d) = 0

Json_a0b1 == <<"{", "\"", "a", "\"", ":", "[", "{", "\"", "b", "\"", ":", "1", "}", "]", "}">>

\* what Set does on the empty maps with "a/0/b" and with the paths of P
AutoCreation(P) ==
  \A d \in DocIds(docs) : EmptyMap(docs, d) =>
    /\ JSONLine(Set(docs, d, <<"a", "/", "0", "/", "b">>, VInt(1)), d) = Json_a0b1
    /\ \A p \in P, v \in Values(docs) : AutoCreated(docs, d, p, v)

RECURSIVE ArrayLevelsIndexed(_, _, _)
\* every segment of the path that doOp looks up in an Array that is already
\* there is the decimal text of an index (1 to 9 digits)
ArrayLevelsIndexed(h, level, path) ==
  IF Len(path) = 0 THEN TRUE
  ELSE LET i == IndexByte(path, "/") IN
    IF i = 0 THEN ArrayLevelsIndexed(h, level, SliceFrom(path, 1))
    ELSE LET name == IF i > 0 THEN SliceTo(path, i) ELSE path
             here == IsArray(h, level) => key2Index(name) >= 0
             next == get(h, level, name)
         IN IF i < 0 THEN here
            ELSE /\ here
                 /\ next.ok /\ IsDoc(next.v) =>
                      ArrayLevelsIndexed(h, next.v.n, SliceFrom(path, i + 1))

NoLevelFrozen(h, d) == \A x \in Reach(h, d) : ~IsFrozen(h, x)

SetThenFetch(h, d, p, v) ==
  LET f == Fetch(Set(h, d, p, v), d, p)
  IN f.ok /\ f.v = convertToDJ(v)

C9_ReadersCreateNothing ==
  \A d \in DocIds(docs), p \in Paths :
    /\ Get(docs, d, p).h = docs
    /\ Fetch(docs, d, p).h = docs
    /\ Has(docs, d, p).h = docs
    /\ Nested(docs, d, p).h = docs
    /\ GetInt(docs, d, p, 0).h = docs
    /\ GetFloat(docs, d, p, 0).h = docs
    /\ GetBool(docs, d, p, FALSE).h = docs
    /\ GetString(docs, d, p, <<>>).h = docs
    /\ GetStr(docs, d, p).h = docs
    /\ GetSlice(docs, d, p).h = docs
    /\ GetStringsSlice(docs, d, p).h = docs
    /\ GetAnySlice(docs, d, p).h = docs
    /\ GetIntsSlice(docs, d, p).h = docs

\* a reader has just been called with a path whose levels are not there
C9_Witness ==
  /\ last = "read"
  /\ \E d \in DocIds(docs), p \in ReadPaths :
       /\ MultiSegment(p)
       /\ ~IsFrozen(docs, d)
       /\ Len(docs[d].values) > 0
       /\ ~Fetch(docs, d, p).ok

(***************************************************************************)
(* C10                                                                     *)
(***************************************************************************)
\* Fetch and Has on the keys of K, against what the container holds
FetchTellsMissingFromNull(K) ==
  \A d \in DocIds(docs), key \in K :
    LET f == Fetch(docs, d, key) IN
    /\ (f.v = VNil /\ ~f.ok) <=> ~LiveKey(docs, d, key)
    /\ LiveKey(docs, d, key) /\ get(docs, d, key).v = VNil => f.v = VNil /\ f.ok
    /\ Has(docs, d, key).ok = f.ok

ArrayIndexes == 0..(MaxSlots + 1)

\* h is h0 with the array d written at index i: grown to i+1 with nils in
\* the gap when i is at or past the end, only index i changed otherwise
WrittenAt(h0, h, d, i, v) ==
  LET n == Len(h0[d].values) IN
  /\ Len(h) = Len(h0)
  /\ \A x \in DocIds(h0) : x # d => h[x] = h0[x]
  /\ Len(h[d].values) = IF i >= n THEN i + 1 ELSE n
  /\ h[d].values[i + 1] = v
  /\ \A k \in 0..(Len(h[d].values) - 1) :
       k # i => h[d].values[k + 1] = IF k < n THEN h0[d].values[k + 1] ELSE VNil

NonIndexKeys == { <<>>, <<"a">>, <<"b">>, <<"0", "a">>, <<"a", "0">>, <<"1", "x">> }

\* C12: setting a key that is no non-negative integer on an Array fails with
\* an error (set returns it) and leaves the length and the elements of the
\* array, and everything else, as they were; Set, which drops the error,
\* leaves them as they were too.
C12_ArrayRejectsNonIndexKey ==
  \A d \in DocIds(docs) : IsArray(docs, d) =>
    \A key \in NonIndexKeys, v \in Values(docs) :
      /\ set(docs, d, key, v).err
      /\ set(docs, d, key, v).h = docs
      /\ Set(docs, d, key, v) = docs

\* an unfrozen array with elements, after a call, on which set("a", 1) fails
C12_Witness ==
  \E d \in DocIds(docs) :
    /\ last = "call"
    /\ IsArray(docs, d) /\ ~IsFrozen(docs, d)
    /\ Len(docs[d].values) = MaxSlots
    /\ set(docs, d, <<"a">>, VInt(1)).err

(***************************************************************************)
(* C13                                                                     *)
(***************************************************************************)
\* s is s0 without its element at index i (0-based): the ones before keep
\* their index, the ones after move down by one
ShiftedDown(s0, s, i) ==
  /\ Len(s) = Len(s0) - 1
  /\ \A k \in 0..(Len(s) - 1) : s[k + 1] = IF k < i THEN s0[k + 1] ELSE s0[k + 2]

\* C13: Delete on an unfrozen Array of length n with an index i < n removes
\* the element at once: the length is n-1, the elements before i keep their
\* index and those after i move down by one; with i >= n or a key that is no
\* number the array is unchanged.
C13_ArrayDeleteShifts ==
  \A d \in DocIds(docs) : IsArray(docs, d) /\ ~IsFrozen(docs, d) =>
    /\ \A i \in ArrayIndexes :
         LET r == Delete(docs, d, Sprint(i)) IN
         /\ ~r.err
         /\ IF i < Len(docs[d].values)
            THEN /\ ShiftedDown(docs[d].values, r.h[d].values, i)
                 /\ Len(r.h) = Len(docs)
                 /\ \A x \in DocIds(docs) : x # d => r.h[x] = docs[x]
            ELSE r.h = docs
    /\ \A key \in NonIndexKeys : Delete(docs, d, key).h = docs

\* an unfrozen array of two elements, the first a null and the second not:
\* Delete("0") moves the second down
C13_Witness ==
  \E d \in DocIds(docs) :
    /\ last = "call"
    /\ IsArray(docs, d) /\ ~IsFrozen(docs, d)
    /\ Len(docs[d].values) = 2
    /\ docs[d].values[1] = VNil /\ docs[d].values[2] # VNil
    /\ Delete(docs, d, <<"0">>).h[d].values = <<docs[d].values[2]>>

(***************************************************************************)
(* C14                                                                     *)
(***************************************************************************)
RECURSIVE IterateFrom(_, _, _, _)
\* the slots (0-based) an Iterate on d calls back for, from the callback for
\* slot j on, when the callback changes nothing and returns true k times and
\* false then
IterateFrom(h, d, j, k) ==
  IF j < 0 THEN <<>>
  ELSE <<j>> \o IterateFrom(h, d, IterateStep(h, d, j, 0 - 1, k > 0), k - 1)

\* one whole call of Iterate with such a callback: the slots called back for
\* and the heap the call leaves
IterateRun(h, d, k) ==
  LET e == IterateEnter(h, d)
  IN [slots |-> IterateFrom(e.h, d, IterateNext(e.h, d, 0, 0 - 1), k),
      h |-> IterateExit(e.h, d, e.dec)]

\* the slots of d that hold an entry
LiveSlotSet(h, d) == { j \in 0..(Len(h[d].values) - 1) : h[d].values[j + 1] # gDeletedEntry }

Increasing(q) == \A a, b \in 1..Len(q) : a < b => q[a] < q[b]

\* C14: Iterate on a Map calls back exactly once for each live entry, in
\* storage order, never for a tombstone, and stops right after the first
\* callback that returns false: with n >= 1 live entries a callback that
\* always returns false is called exactly once, and Len() is n afterwards.
C14_IterateOncePerLiveEntry ==
  \A d \in DocIds(docs) : ~IsArray(docs, d) =>
    LET all == IterateRun(docs, d, Len(docs[d].values) + 1).slots
        n == Len_(docs, d)
    IN /\ Increasing(all)
       /\ RangeOf(all) = LiveSlotSet(docs, d)
       /\ Len(all) = n
       /\ \A k \in 0..n :
            LET r == IterateRun(docs, d, k)
            IN /\ r.slots = SubSeq(all, 1, IF k + 1 < n THEN k + 1 ELSE n)
               /\ Len_(r.h, d) = n
               /\ Keys(r.h, d) = Keys(docs, d)

\* a callback is running for an entry that lies behind a tombstone the loop
\* has stepped over, on a map with a further live entry behind it
C14_Witness ==
  \E a \in 1..Len(iters) :
    LET f == iters[a] IN
    /\ f.kind = "Iterate"
    /\ ~IsArray(docs, f.d)
    /\ \E j \in LiveSlotSet(docs, f.d) : j > f.i
    /\ \E j \in 0..f.i : docs[f.d].values[j + 1] = gDeletedEntry
    /\ f.i \in LiveSlotSet(docs, f.d)

(***************************************************************************)
(* C15                                                                     *)
(***************************************************************************)
\* h differs from h0 only in the map d, where the slot of key has become a
\* tombstone and key is no longer recorded: as many slots as before, every
\* other slot and the slot index of every other key as they were
OnlyTombstoned(h0, h, d, key) ==
  LET inx == h0[d].keys[key] IN
  /\ Len(h) = Len(h0)
  /\ \A x \in DocIds(h0) : x # d => h[x] = h0[x]
  /\ Len(h[d].values) = Len(h0[d].values)
  /\ h[d].values[inx + 1] = gDeletedEntry
  /\ \A j \in 1..Len(h0[d].values) : j # inx + 1 => h[d].values[j] = h0[d].values[j]
  /\ h[d].ordKeys = h0[d].ordKeys
  /\ DOMAIN h[d].keys = DOMAIN h0[d].keys \ {key}
  /\ \A k \in DOMAIN h[d].keys : h[d].keys[k] = h0[d].keys[k]
  /\ h[d].iterCounter = h0[d].iterCounter

\* C15: while an Iterate or EachPair (re-entrant ones included) is in
\* progress on an unfrozen Map, a Delete of a live key from the callback only
\* turns the slot of that key into a tombstone: nothing is compacted, every
\* other entry keeps its slot, and the iteration then goes on to call back
\* exactly once, in order, for each entry behind its position that is still
\* live, and never for the deleted one.
C15_DeleteWhileIterating ==
  \A a \in 1..Len(iters) :
    LET f == iters[a] IN
    (f.kind # "StrMap" /\ ~IsArray(docs, f.d) /\ ~IsFrozen(docs, f.d)) =>
      \A key \in DOMAIN docs[f.d].keys :
        LET r == Delete(docs, f.d, key)
            inx == docs[f.d].keys[key]
            rest == IterateFrom(r.h, f.d, IterateStep(r.h, f.d, f.i, f.lim, TRUE),
                                Len(docs[f.d].values) + 1)
        IN /\ ~r.err
           /\ OnlyTombstoned(docs, r.h, f.d, key)
           /\ Increasing(rest)
           /\ RangeOf(rest) = { j \in LiveSlotSet(docs, f.d) : j > f.i } \ {inx}

\* inside a re-entrant iteration a callback has deleted the entry it was
\* called for, on a map with so many tombstones that a Delete outside any
\* iteration would have compacted it, and a live entry lies behind
C15_Witness ==
  /\ Len(iters) = 2
  /\ iters[1].d = iters[2].d
  /\ LET f == iters[2] IN
     /\ f.kind # "StrMap"
     /\ ~IsArray(docs, f.d)
     /\ f.i < Len(docs[f.d].values)
     /\ docs[f.d].values[f.i + 1] = gDeletedEntry
     /\ Len(docs[f.d].values) >= PackMinSlots
     /\ Cardinality(DOMAIN docs[f.d].keys) * 3 < Len(docs[f.d].values)
     /\ \E j \in LiveSlotSet(docs, f.d) : j > f.i

(***************************************************************************)
(* C16                                                                     *)
(***************************************************************************)
\* the map d has reached the size and the share of tombstones at which
\* packing() rebuilds it
PackDue(h, d) ==
  /\ Len(h[d].values) >= PackMinSlots
  /\ Cardinality(DOMAIN h[d].keys) * 3 < Len(h[d].values)

StrMapPackDue(m) ==
  /\ Len(m.values) >= PackMinSlots
  /\ Cardinality(DOMAIN m.keys) * 3 < Len(m.values)

\* no tombstone is left in the map d
Compacted(h, d) == Len(h[d].values) = Cardinality(DOMAIN h[d].keys)

StrMapCompacted(m) == Len(m.values) = Cardinality(DOMAIN m.keys)

\* C16: when the outermost Iterate or EachPair on an unfrozen Map, or the
\* outermost Iterate on a StrMap, returns while the map has at least 128
\* slots and fewer live entries than a third of its slots, the map has been
\* compacted by the time the call has returned.
C16_CompactedWhenIterationEnds ==
  /\ \A d \in DocIds(docs) :
       (~IsArray(docs, d) /\ docs[d].iterCounter = 0 /\ PackDue(docs, d)) =>
         \A k \in 0..1 : Compacted(IterateRun(docs, d, k).h, d)
  /\ (Len(iters) = 1 /\ iters[1].kind = "Iterate") =>
       LET f == iters[1] IN
       (~IsArray(docs, f.d) /\ f.dec /\ PackDue(docs, f.d)) =>
         Compacted(IterateExit(docs, f.d, f.dec), f.d)
  /\ (Len(iters) = 1 /\ iters[1].kind = "EachPair") =>
       LET f == iters[1] IN
       (~IsArray(docs, f.d) /\ f.dec /\ PackDue(docs, f.d)) =>
         Compacted(EachPairExit(docs, f.d, f.dec), f.d)
  /\ (Len(iters) = 1 /\ iters[1].kind = "StrMap" /\ StrMapPackDue(sm)) =>
       StrMapCompacted(StrMapIterateExit(sm))

(***************************************************************************)
(* C17                                                                     *)
(***************************************************************************)
\* no Iterate or EachPair is in progress on the document d
NotIterating(d) == \A a \in 1..Len(iters) : iters[a].kind = "StrMap" \/ iters[a].d # d

\* no Iterate is in progress on the StrMap
StrMapNotIterating == \A a \in 1..Len(iters) : iters[a].kind # "StrMap"

\* C17: right after a Delete of a live key on an unfrozen Map or on a StrMap
\* on which no iteration is in progress, the map does not have 128 slots or
\* more with fewer live entries than a third of them; Len() is the number of
\* the keys that survive, and each of them is still found, with its value.
C17_DeleteShrinksAndKeeps ==
  /\ \A d \in DocIds(docs) :
       (~IsArray(docs, d) /\ ~IsFrozen(docs, d) /\ NotIterating(d)) =>
         \A key \in DOMAIN docs[d].keys :
           LET r == Delete(docs, d, key)
               rest == DOMAIN docs[d].keys \ {key}
           IN /\ ~r.err
              /\ ~PackDue(r.h, d)
              /\ Len_(r.h, d) = Cardinality(rest)
              /\ Keys(r.h, d) = Without(Keys(docs, d), key)
              /\ ~Fetch(r.h, d, key).ok
              /\ \A k \in rest : /\ Fetch(r.h, d, k).ok
                                 /\ Fetch(r.h, d, k).v = Fetch(docs, d, k).v
  /\ (sm.alive /\ StrMapNotIterating) =>
       \A key \in DOMAIN sm.keys :
         LET m == StrMapDelete(sm, key)
             rest == DOMAIN sm.keys \ {key}
         IN /\ ~StrMapPackDue(m)
            /\ StrMapLen(m) = Cardinality(rest)
            /\ StrMapKeys(m) = Without(StrMapKeys(sm), key)
            /\ ~StrMapGet(m, key).ok
            /\ \A k \in rest : /\ StrMapGet(m, k).ok
                               /\ StrMapGet(m, k).v = StrMapGet(sm, k).v

\* a map of 128 slots on which no iteration is in progress, with three live
\* entries behind its tombstones: the Delete of one of them compacts it to
\* the two that survive
C17_Witness ==
  \E d \in DocIds(docs) :
    /\ ~IsArray(docs, d) /\ ~IsFrozen(docs, d) /\ NotIterating(d)
    /\ Len(docs[d].values) >= PackMinSlots
    /\ Cardinality(DOMAIN docs[d].keys) = 3
    /\ \E key \in DOMAIN docs[d].keys :
         /\ docs[d].keys[key] > 0
         /\ Len(Delete(docs, d, key).h[d].values) = 2

(***************************************************************************)
(* C18                                                                     *)
(***************************************************************************)
\* the slots that hold the document c: pairs of a parent and a slot index
ParentSlots(h, c) ==
  UNION { { <<p, j>> : j \in { i \in 1..Len(h[p].values) : h[p].values[i] = VDoc(c) } } :
          p \in DocIds(h) }

\* C18: a document owns its children exclusively: no document is held in two
\* slots (of two parents, or of one parent under two keys), no document is
\* reachable from itself, and so Freeze never fails to terminate.
C18_ExclusiveOwnership ==
  /\ \A c \in DocIds(docs) : Cardinality(ParentSlots(docs, c)) <= 1
  /\ \A d \in DocIds(docs) : Acyclic(docs, d)
  /\ ~panicked

(***************************************************************************)
(* C19                                                                     *)
(***************************************************************************)
\* the text JSONLine writes for d parses, and the parsed document and d are
\* IsEqualAsString, whichever of the two is the receiver
RoundTrip(h, d) ==
  LET r == Parse(h, JSONLine(h, d))
  IN /\ ~r.err
     /\ IsEqualAsString(r.h, r.d, d)
     /\ IsEqualAsString(r.h, d, r.d)

\* C19: for every document built through the calls, with nulls, bools, number
\* texts and strings as scalar values, JSONLine returns, Parse of what it
\* returns succeeds, and the parsed document is IsEqualAsString to the
\* document.
C19_RoundTrip ==
  \A d \in DocIds(docs) : Acyclic(docs, d) /\ RoundTrip(docs, d)

(***************************************************************************)
(* C20                                                                     *)
(***************************************************************************)
\* number tokens that denote an integer, written as decimal digits with or
\* without a sign and a trailing ".0", each with the integer it denotes
IntegerTokens ==
  { [text |-> <<"1", "0", "0">>, int |-> 100],
    [text |-> <<"3", "1", "1", "6", "7", ".", "0">>, int |-> 31167],
    [text |-> <<"0">>, int |-> 0],
    [text |-> <<"-", "7", ".", "0">>, int |-> 0 - 7] }

\* the texts of all the number tokens tried: the ones above and some with a
\* fraction or an exponent
NumberTokens ==
  { t.text : t \in IntegerTokens }
    \cup { <<"1", ".", "5", "0">>, <<"-", "2", "e", "1">>, <<"0", ".", "2", "5">> }

\* {"x":<token>} and [<token>]
ObjectWith(token) == <<"{", "\"", "x", "\"", ":">> \o token \o <<"}">>

ArrayWith(token) == <<"[">> \o token \o <<"]">>

\* the sequence part occurs in the sequence q as a run of consecutive elements
Contains(q, part) ==
  \E i \in 0..(Len(q) - Len(part)) : SubSeq(q, i + 1, i + Len(part)) = part

\* C20: a number token of the parsed text is stored as its exact text and
\* written back character for character by JSONLine and by JSON, in a map and
\* in an array, also after later calls on the document; and when the token is
\* an integer in decimal digits, with or without a trailing ".0", GetInt on
\* the entry returns that integer.
C20_NumberFidelity ==
  /\ \A token \in NumberTokens :
       LET r == Parse(docs, ObjectWith(token))
           a == Parse(docs, ArrayWith(token))
       IN /\ ~r.err /\ ~a.err
          /\ Fetch(r.h, r.d, <<"x">>).v = VNum(token)
          /\ Fetch(a.h, a.d, <<"0">>).v = VNum(token)
          /\ JSONLine(r.h, r.d) = ObjectWith(token)
          /\ JSONLine(a.h, a.d) = ArrayWith(token)
          /\ Contains(JSON(r.h, r.d), <<":", " ">> \o token \o <<"\n">>)
          /\ Contains(JSON(a.h, a.d), <<" ">> \o token \o <<"\n">>)
  /\ \A t \in IntegerTokens :
       LET r == Parse(docs, ObjectWith(t.text))
       IN GetInt(r.h, r.d, <<"x">>, 0 - 1).v = t.int
  /\ \A d \in DocIds(docs) :
       (~IsArray(docs, d) /\ Acyclic(docs, d)) =>
         \A key \in DOMAIN docs[d].keys :
           LET v == get(docs, d, key).v
           IN v.t = "num" =>
                Contains(JSONLine(docs, d), encodeString(key) \o <<":">> \o v.s)

\* the document parsed from {"x":31167.0}, after a later Set of another key:
\* x still holds the text 31167.0, and GetInt of x is 31167
C20_Witness ==
  \E d \in DocIds(docs) :
    /\ ~IsArray(docs, d)
    /\ DOMAIN docs[d].keys = { <<"x">>, <<"a">> }
    /\ Fetch(docs, d, <<"x">>).v = VNum(<<"3", "1", "1", "6", "7", ".", "0">>)
    /\ GetInt(docs, d, <<"x">>, 0 - 1).v = 31167
    /\ Contains(JSONLine(docs, d),
                <<"\"", "x", "\"", ":", "3", "1", "1", "6", "7", ".", "0", ",">>)

(***************************************************************************)
(* C21                                                                     *)
(***************************************************************************)
\* texts whose first token opens neither an object nor an array: scalars, a
\* string, a closing bracket, a comma, no token at all, and a number of 60
\* digits
NotContainerTexts ==
  { <<>>, <<" ">>, <<"1">>, <<"-", "1", ".", "5">>, <<"\"", "a", "\"">>,
    <<"t", "r", "u", "e">>, <<"n", "u", "l", "l">>, <<"]">>, <<"}">>, <<",">>,
    <<"x">>, <<" ", "1", ",", "[", "]">>, [i \in 1..60 |-> "1"] }

\* texts that open an object or an array, behind white space or not
ContainerTexts ==
  Texts \cup { <<"[", "]">>, <<" ", "[", "1", "]">>, <<"\n", "{", "}">>,
               <<"[", "{", "}", "]">> }

\* C21: Parse of a text whose first token opens neither an object nor an
\* array returns no document and an error that quotes the input, at most its
\* first 50 bytes, and builds nothing; Parse that succeeds returns a document
\* that is a Map when the text opens with { and an Array when it opens with [.
C21_ParseTopLevel ==
  /\ \A data \in NotContainerTexts :
       LET r == Parse(docs, data)
       IN /\ r.err /\ r.d = NilDoc /\ r.h = docs
          /\ Len(r.part) <= 50
          /\ r.part = SubSeq(data, 1, Len(r.part))
          /\ Len(data) <= 50 => r.part = data
  /\ \A data \in ContainerTexts :
       LET r == Parse(docs, data)
           open == data[SkipSpaces(data, 1)]
       IN /\ ~r.err /\ r.d # NilDoc
          /\ r.d \in DocIds(r.h) \ DocIds(docs)
          /\ IsArray(r.h, r.d) <=> open = "["
          /\ ~IsArray(r.h, r.d) <=> open = "{"

\* the heap holds the three documents parsed from {"a":[{"b":1.50}]}, the
\* root a Map and its child an Array
C21_Witness ==
  /\ last = "call"
  /\ Len(docs) = 3
  /\ ~IsArray(docs, 1) /\ IsArray(docs, 2) /\ ~IsArray(docs, 3)
  /\ Fetch(docs, 1, <<"a", "/", "0", "/", "b">>).v = VNum(<<"1", ".", "5", "0">>)

(***************************************************************************)
(* C22                                                                     *)
(***************************************************************************)
\* objects whose keys hold a slash, are decimal integers, are empty or come
\* twice, with the keys and the number texts the Map is to hold, in order, and
\* the compact text it is to be written as:
\*   {"a/b":1}
\*   {"0":1}
\*   {"10":1}
\*   {"":1}
\*   {"/":1}
\*   {"a":1,"b":2,"a":3}
\*   {"a/0":1,"":2,"a/0":3}
\*   { "a/b/c" : 1 , "a" : 2 }
KeyTexts == {
    [text |-> <<"{", "\"", "a", "/", "b", "\"", ":", "1", "}">>,
     keys |-> <<<<"a", "/", "b">>>>,
     nums |-> <<<<"1">>>>,
     line |-> <<"{", "\"", "a", "/", "b", "\"", ":", "1", "}">>],
    [text |-> <<"{", "\"", "0", "\"", ":", "1", "}">>,
     keys |-> <<<<"0">>>>,
     nums |-> <<<<"1">>>>,
     line |-> <<"{", "\"", "0", "\"", ":", "1", "}">>],
    [text |-> <<"{", "\"", "1", "0", "\"", ":", "1", "}">>,
     keys |-> <<<<"1", "0">>>>,
     nums |-> <<<<"1">>>>,
     line |-> <<"{", "\"", "1", "0", "\"", ":", "1", "}">>],
    [text |-> <<"{", "\"", "\"", ":", "1", "}">>,
     keys |-> <<<<>>>>,
     nums |-> <<<<"1">>>>,
     line |-> <<"{", "\"", "\"", ":", "1", "}">>],
    [text |-> <<"{", "\"", "/", "\"", ":", "1", "}">>,
     keys |-> <<<<"/">>>>,
     nums |-> <<<<"1">>>>,
     line |-> <<"{", "\"", "/", "\"", ":", "1", "}">>],
    [text |-> <<"{", "\"", "a", "\"", ":", "1", ",", "\"", "b", "\"", ":", "2", ",", "\"", "a", "\"", ":", "3", "}">>,
     keys |-> <<<<"a">>, <<"b">>>>,
     nums |-> <<<<"3">>, <<"2">>>>,
     line |-> <<"{", "\"", "a", "\"", ":", "3", ",", "\"", "b", "\"", ":", "2", "}">>],
    [text |-> <<"{", "\"", "a", "/", "0", "\"", ":", "1", ",", "\"", "\"", ":", "2", ",", "\"", "a", "/", "0", "\"", ":", "3", "}">>,
     keys |-> <<<<"a", "/", "0">>, <<>>>>,
     nums |-> <<<<"3">>, <<"2">>>>,
     line |-> <<"{", "\"", "a", "/", "0", "\"", ":", "3", ",", "\"", "\"", ":", "2", "}">>],
    [text |-> <<"{", " ", "\"", "a", "/", "b", "/", "c", "\"", " ", ":", " ", "1", " ", ",", " ", "\"", "a", "\"", " ", ":", " ", "2", " ", "}">>,
     keys |-> <<<<"a", "/", "b", "/", "c">>, <<"a">>>>,
     nums |-> <<<<"1">>, <<"2">>>>,
     line |-> <<"{", "\"", "a", "/", "b", "/", "c", "\"", ":", "1", ",", "\"", "a", "\"", ":", "2", "}">>] }

\* C22: Parse of an object makes one entry of the Map per distinct key, under
\* the key as it is written: a key with a slash, a decimal integer and the
\* empty key are single entries and no nested document is built for them; a
\* key that comes again keeps the place of its first occurrence and takes the
\* value of its last; JSONLine writes the entries back under the same keys.
C22_KeysVerbatim ==
  \A c \in KeyTexts :
    LET r == Parse(docs, c.text)
    IN /\ ~r.err
       /\ Len(r.h) = Len(docs) + 1
       /\ ~IsArray(r.h, r.d)
       /\ r.h[r.d].ordKeys = c.keys
       /\ r.h[r.d].values = [i \in 1..Len(c.nums) |-> VNum(c.nums[i])]
       /\ Keys(r.h, r.d) = c.keys
       /\ JSONLine(r.h, r.d) = c.line

\* a document parsed from {"a/0":1,"":2,"a/0":3} is on the heap: two entries,
\* the first under the key a/0 with the value of its second occurrence
C22_Witness ==
  \E d \in DocIds(docs) :
    /\ ~IsArray(docs, d)
    /\ docs[d].ordKeys = <<<<"a", "/", "0">>, <<>> >>
    /\ docs[d].values = <<VNum(<<"3">>), VNum(<<"2">>)>>

(***************************************************************************)
(* C23                                                                     *)
(***************************************************************************)
RECURSIVE EntryAt(_, _, _)
\* the entry the segments lead to from level, read off the documents: every
\* segment but the last names a live entry that holds a document, the last a
\* live entry
EntryAt(h, level, segs) ==
  LET e == get(h, level, Head(segs))
  IN IF ~e.ok THEN [ok |-> FALSE, v |-> VNil]
     ELSE IF Len(segs) = 1 THEN e
     ELSE IF IsDoc(e.v) THEN EntryAt(h, e.v.n, Tail(segs))
     ELSE [ok |-> FALSE, v |-> VNil]

\* values stored under the key k of a fresh Map, with what GetInt and GetFloat
\* of k are to give: the number, or none for the caller's default
Coercions ==
  { [v |-> VInt(7), int |-> <<7>>, float |-> <<>>],
    [v |-> VNum(<<"3", "1", "1", "6", "7", ".", "0">>), int |-> <<31167>>,
     float |-> <<[m |-> 31167, e |-> 0]>>],
    [v |-> VNum(<<"1", "0", "0">>), int |-> <<100>>, float |-> <<[m |-> 1, e |-> 2]>>],
    [v |-> VNum(<<"-", "7", ".", "0">>), int |-> <<0 - 7>>, float |-> <<[m |-> 0 - 7, e |-> 0]>>],
    [v |-> VNum(<<"1", ".", "5", "0">>), int |-> <<>>, float |-> <<[m |-> 15, e |-> 0 - 1]>>],
    [v |-> VNum(<<"-", "2", "e", "1">>), int |-> <<>>, float |-> <<[m |-> 0 - 2, e |-> 1]>>],
    [v |-> VStr(<<"4", "2">>), int |-> <<42>>, float |-> <<[m |-> 42, e |-> 0]>>],
    [v |-> VStr(<<"-", "3">>), int |-> <<0 - 3>>, float |-> <<[m |-> 0 - 3, e |-> 0]>>],
    [v |-> VStr(<<"4", "2", ".", "0">>), int |-> <<>>, float |-> <<[m |-> 42, e |-> 0]>>],
    [v |-> VStr(<<"x">>), int |-> <<>>, float |-> <<>>],
    [v |-> VStr(<<>>), int |-> <<>>, float |-> <<>>],
    [v |-> VBool(TRUE), int |-> <<>>, float |-> <<>>],
    [v |-> VNil, int |-> <<>>, float |-> <<>>] }

\* C23: GetInt, GetBool, GetString and GetFloat change nothing and return the
\* caller's default when the receiver is nil, when the path leads to no entry
\* (a key that is not live, an index out of range, a segment on the way that
\* holds no document) and when the entry holds a value the getter does not
\* convert; GetBool returns a stored bool, GetString a stored string or number
\* text, and GetInt the integer of an int, of an integer number text with or
\* without one trailing ".0" and of a decimal string.
C23_GettersNeverFail ==
  LET di == 0 - 7
      ds == <<"d">>
      df == [m |-> 5, e |-> 0 - 1]
      defaults(h, d, p) ==
        /\ GetInt(h, d, p, di).v = di
        /\ GetFloat(h, d, p, df).v = df
        /\ GetString(h, d, p, ds).v = ds
  IN /\ \A d \in DocIds(docs) \cup { NilDoc }, p \in Paths :
          /\ GetInt(docs, d, p, di).h = docs
          /\ GetFloat(docs, d, p, df).h = docs
          /\ GetString(docs, d, p, ds).h = docs
          /\ \A db \in BOOLEAN : GetBool(docs, d, p, db).h = docs
          /\ d = NilDoc =>
               defaults(docs, d, p) /\ \A db \in BOOLEAN : GetBool(docs, d, p, db).v = db
          /\ p = <<>> =>
               defaults(docs, d, p) /\ \A db \in BOOLEAN : GetBool(docs, d, p, db).v = db
          /\ (p # <<>> /\ NoEmptySegment(p)) =>
               LET e == EntryAt(docs, d, Split(p))
               IN /\ (~e.ok \/ e.v.t \in { "nil", "doc" }) =>
                       defaults(docs, d, p)
                  /\ \A db \in BOOLEAN :
                       GetBool(docs, d, p, db).v =
                         IF e.ok /\ e.v.t = "bool" THEN e.v.b ELSE db
                  /\ (e.ok /\ e.v.t = "bool") => defaults(docs, d, p)
                  /\ (e.ok /\ e.v.t \in { "str", "num" }) =>
                       GetString(docs, d, p, ds).v = e.v.s
                  /\ (e.ok /\ e.v.t = "int") =>
                       GetInt(docs, d, p, di).v = e.v.n
     /\ \A c \in Coercions :
          LET m == Len(docs) + 1
              h == Set(Append(docs, NewMap), m, <<"k">>, c.v)
          IN /\ GetInt(h, m, <<"k">>, di).v = IF c.int = <<>> THEN di ELSE c.int[1]
             /\ GetFloat(h, m, <<"k">>, df).v = IF c.float = <<>> THEN df ELSE c.float[1]
             /\ GetInt(h, m, <<"k">>, di).h = h
             /\ defaults(h, m, <<"k", "/", "a">>)
             /\ defaults(h, m, <<"a">>)

\* a Map holds the number text 1.0 under a and nothing under 0: GetInt of a is
\* 1, and GetInt of the missing 0 and of a/0, where a holds no document, is the
\* default
C23_Witness ==
  \E d \in DocIds(docs) :
    /\ ~IsArray(docs, d)
    /\ get(docs, d, <<"a">>).v = VNum(<<"1", ".", "0">>)
    /\ <<"0">> \notin DOMAIN docs[d].keys
    /\ GetInt(docs, d, <<"a">>, 0 - 7).v = 1
    /\ GetInt(docs, d, <<"0">>, 0 - 7).v = 0 - 7
    /\ GetInt(docs, d, <<"a", "/", "0">>, 0 - 7).v = 0 - 7
    /\ GetBool(docs, d, <<"a">>, TRUE).v = TRUE

(***************************************************************************)
(* C24                                                                     *)
(***************************************************************************)
\* an Array without elements, or a Map whose slots, if any, are all tombstones
NoLiveEntry(h, d) ==
  IF IsArray(h, d) THEN h[d].values = <<>>
  ELSE \A i \in 1..Len(h[d].values) : h[d].values[i] = gDeletedEntry

\* C24: a container without live entries is written as [] or {} and nothing
\* else, compact and pretty, at the top and at any indentation; inside its
\* parent it stands as [] or {} right behind the key or in its element's place.
C24_EmptyContainers ==
  /\ \A d \in DocIds(docs) :
       NoLiveEntry(docs, d) =>
         LET text == IF IsArray(docs, d) THEN <<"[", "]">> ELSE <<"{", "}">>
         IN /\ JSON(docs, d) = text
            /\ JSONLine(docs, d) = text
            /\ \A pretty \in BOOLEAN :
                 \A ident \in { <<" ", " ">>, <<" ", " ", " ", " ">> } :
                   writeTo(docs, d, pretty, ident) = text
  /\ \A p \in DocIds(docs) :
       Acyclic(docs, p) =>
         \A i \in 1..Len(docs[p].values) :
           LET v == docs[p].values[i]
           IN (IsDoc(v) /\ NoLiveEntry(docs, v.n)) =>
                LET text == IF IsArray(docs, v.n) THEN <<"[", "]">> ELSE <<"{", "}">>
                IN IF IsArray(docs, p)
                   THEN /\ Contains(JSONLine(docs, p), text)
                        /\ Contains(JSON(docs, p), <<"\n", " ", " ">> \o text)
                   ELSE /\ Contains(JSONLine(docs, p),
                                    encodeString(docs[p].ordKeys[i]) \o <<":">> \o text)
                        /\ Contains(JSON(docs, p),
                                    encodeString(docs[p].ordKeys[i]) \o <<":", " ">> \o text)

\* a Map whose only slot is a tombstone, written as {} in both modes
C24_Witness ==
  \E d \in DocIds(docs) :
    /\ ~IsArray(docs, d)
    /\ Len(docs[d].values) > 0
    /\ NoLiveEntry(docs, d)
    /\ JSON(docs, d) = <<"{", "}">>
    /\ JSONLine(docs, d) = <<"{", "}">>

(***************************************************************************)
(* C25                                                                     *)
(***************************************************************************)
RECURSIVE JoinWith(_, _)
\* the texts of parts in a row, sep between two neighbours
JoinWith(parts, sep) ==
  IF parts = <<>> THEN <<>>
  ELSE IF Len(parts) = 1 THEN parts[1]
  ELSE parts[1] \o sep \o JoinWith(Tail(parts), sep)

\* the member texts of the live entries of the Map d, in storage order: the
\* key as a string literal, the separator, the value
MemberTexts(h, d, pretty) ==
  LET live == LiveSlots(h[d])
  IN [j \in 1..Len(live) |->
        encodeString(h[d].ordKeys[live[j]])
          \o (IF pretty THEN <<":", " ">> ELSE <<":">>)
          \o (IF IsDoc(h[d].values[live[j]])
              THEN writeTo(h, h[d].values[live[j]].n, pretty,
                           IF pretty THEN <<" ", " ">> ELSE <<>>)
              ELSE scalar2json(h[d].values[live[j]]))]

\* C25: the text of a Map with live entries is the members of its live
\* entries, each once and in storage order, with one comma between two
\* neighbours and none before the first or behind the last; a tombstone adds
\* nothing, neither a member nor a comma.
C25_MapMembers ==
  \A d \in DocIds(docs) :
    (~IsArray(docs, d) /\ Acyclic(docs, d) /\ LiveSlots(docs[d]) # <<>>) =>
      /\ JSONLine(docs, d) =
           <<"{">> \o JoinWith(MemberTexts(docs, d, FALSE), <<",">>) \o <<"}">>
      /\ JSON(docs, d) =
           <<"{", "\n", " ", " ">>
             \o JoinWith(MemberTexts(docs, d, TRUE), <<",", "\n", " ", " ">>)
             \o <<"\n", "}">>

\* a Map whose first slot is a tombstone and whose second holds a live entry
C25_Witness ==
  \E d \in DocIds(docs) :
    /\ ~IsArray(docs, d) /\ Acyclic(docs, d)
    /\ Len(docs[d].values) = 2
    /\ docs[d].values[1] = gDeletedEntry
    /\ docs[d].values[2] # gDeletedEntry
    /\ JSONLine(docs, d)[2] = "\""

(***************************************************************************)
(* C26                                                                     *)
(***************************************************************************)
\* the texts of the elements of a container written pretty at the indentation
\* ident: the values of an Array, the members of the live entries of a Map
PrettyElements(h, d, ident) ==
  LET text(v) == IF IsDoc(v) THEN writeTo(h, v.n, TRUE, ident) ELSE scalar2json(v)
      live == LiveSlots(h[d])
  IN IF IsArray(h, d)
     THEN [i \in 1..Len(h[d].values) |-> text(h[d].values[i])]
     ELSE [j \in 1..Len(live) |->
             encodeString(h[d].ordKeys[live[j]]) \o <<":", " ">>
               \o text(h[d].values[live[j]])]

\* C26: a container with entries, written pretty at an indentation, is its
\* opening bracket, then every element on a line of its own behind two spaces
\* more than that indentation, a comma behind every element but the last,
\* then the closing bracket on a line of its own at that indentation, and
\* ": " between a key and its value; the compact text is the pretty one
\* without its line ends and spaces and holds neither; {"x":100} is written
\* pretty as its three lines.
C26_PrettyAndCompact ==
  /\ \A d \in DocIds(docs) :
       (Acyclic(docs, d) /\ Len_(docs, d) > 0) =>
         /\ \A ident \in { <<>>, <<" ", " ">> } :
              writeTo(docs, d, TRUE, ident) =
                <<IF IsArray(docs, d) THEN "[" ELSE "{">>
                  \o <<"\n">> \o ident \o <<" ", " ">>
                  \o JoinWith(PrettyElements(docs, d, ident \o <<" ", " ">>),
                              <<",", "\n">> \o ident \o <<" ", " ">>)
                  \o <<"\n">> \o ident
                  \o <<IF IsArray(docs, d) THEN "]" ELSE "}">>
         /\ \A j \in 1..Len(JSONLine(docs, d)) : JSONLine(docs, d)[j] \notin { " ", "\n" }
         /\ JSONLine(docs, d) = SelectSeq(JSON(docs, d), LAMBDA c : c \notin { " ", "\n" })
  /\ LET r == Parse(docs, <<"{", "\"", "x", "\"", ":", "1", "0", "0", "}">>)
     IN /\ ~r.err
        /\ JSON(r.h, r.d) = <<"{", "\n", " ", " ", "\"", "x", "\"", ":", " ", "1", "0", "0", "\n", "}">>
        /\ JSONLine(r.h, r.d) = <<"{", "\"", "x", "\"", ":", "1", "0", "0", "}">>
  /\ LET r == Parse(docs, <<"{", "\n", " ", " ", "\"", "x", "\"", ":", " ", "1", "0", "0", "\n", "}">>)
     IN /\ ~r.err
        /\ JSON(r.h, r.d) = <<"{", "\n", " ", " ", "\"", "x", "\"", ":", " ", "1", "0", "0", "\n", "}">>

\* the document parsed from {"a":[{"b":1.50}]}, written pretty on seven lines,
\* three levels deep
C26_Witness ==
  \E d \in DocIds(docs) :
    /\ ~IsArray(docs, d)
    /\ JSON(docs, d) = <<"{", "\n", " ", " ", "\"", "a", "\"", ":", " ", "[", "\n", " ", " ", " ", " ", "{", "\n", " ", " ", " ", " ", " ", " ", "\"", "b", "\"", ":", " ", "1", ".", "5", "0", "\n", " ", " ", " ", " ", "}", "\n", " ", " ", "]", "\n", "}">>

(***************************************************************************)
(* C27                                                                     *)
(***************************************************************************)
\* strings with the string literal they are to be written as: every kind of
\* byte the escaper tells apart (quote, backslash, <, >, &, line feed,
\* carriage return, tab, other control bytes, DEL, bytes that start no
\* well-formed UTF-8 encoding, a two-byte character, U+2028, U+2029, U+FFFD,
\* cut-off encodings) in a string shorter than 8 bytes, first and last of a
\* string of 8 bytes, right behind 8 bytes, and in the second 8 bytes of a
\* string of 17, and strings of 1, 7, 8, 9, 16 and 17 bytes with nothing to
\* escape
EscapeCases == {
    [in |-> <<"a", "\"", "b">>,
     out |-> <<"\"", "a", "\\", "\"", "b", "\"">>],
    [in |-> <<"\"", "a", "a", "a", "a", "a", "a", "a">>,
     out |-> <<"\"", "\\", "\"", "a", "a", "a", "a", "a", "a", "a", "\"">>],
    [in |-> <<"a", "a", "a", "a", "a", "a", "a", "\"">>,
     out |-> <<"\"", "a", "a", "a", "a", "a", "a", "a", "\\", "\"", "\"">>],
    [in |-> <<"a", "a", "a", "a", "a", "a", "a", "a", "\"">>,
     out |-> <<"\"", "a", "a", "a", "a", "a", "a", "a", "a", "\\", "\"", "\"">>],
    [in |-> <<"a", "a", "a", "a", "a", "a", "a", "a", "b", "b", "\"", "c", "c", "c", "c", "c", "d">>,
     out |-> <<"\"", "a", "a", "a", "a", "a", "a", "a", "a", "b", "b", "\\", "\"", "c", "c", "c", "c", "c", "d", "\"">>],
    [in |-> <<"a", "\\", "b">>,
     out |-> <<"\"", "a", "\\", "\\", "b", "\"">>],
    [in |-> <<"\\", "a", "a", "a", "a", "a", "a", "a">>,
     out |-> <<"\"", "\\", "\\", "a", "a", "a", "a", "a", "a", "a", "\"">>],
    [in |-> <<"a", "a", "a", "a", "a", "a", "a", "\\">>,
     out |-> <<"\"", "a", "a", "a", "a", "a", "a", "a", "\\", "\\", "\"">>],
    [in |-> <<"a", "a", "a", "a", "a", "a", "a", "a", "\\">>,
     out |-> <<"\"", "a", "a", "a", "a", "a", "a", "a", "a", "\\", "\\", "\"">>],
    [in |-> <<"a", "a", "a", "a", "a", "a", "a", "a", "b", "b", "\\", "c", "c", "c", "c", "c", "d">>,
     out |-> <<"\"", "a", "a", "a", "a", "a", "a", "a", "a", "b", "b", "\\", "\\", "c", "c", "c", "c", "c", "d", "\"">>],
    [in |-> <<"a", "<", "b">>,
     out |-> <<"\"", "a", "\\", "u", "0", "0", "3", "c", "b", "\"">>],
    [in |-> <<"<", "a", "a", "a", "a", "a", "a", "a">>,
     out |-> <<"\"", "\\", "u", "0", "0", "3", "c", "a", "a", "a", "a", "a", "a", "a", "\"">>],
    [in |-> <<"a", "a", "a", "a", "a", "a", "a", "<">>,
     out |-> <<"\"", "a", "a", "a", "a", "a", "a", "a", "\\", "u", "0", "0", "3", "c", "\"">>],
    [in |-> <<"a", "a", "a", "a", "a", "a", "a", "a", "<">>,
     out |-> <<"\"", "a", "a", "a", "a", "a", "a", "a", "a", "\\", "u", "0", "0", "3", "c", "\"">>],
    [in |-> <<"a", "a", "a", "a", "a", "a", "a", "a", "b", "b", "<", "c", "c", "c", "c", "c", "d">>,
     out |-> <<"\"", "a", "a", "a", "a", "a", "a", "a", "a", "b", "b", "\\", "u", "0", "0", "3", "c", "c", "c", "c", "c", "c", "d", "\"">>],
    [in |-> <<"a", ">", "b">>,
     out |-> <<"\"", "a", "\\", "u", "0", "0", "3", "e", "b", "\"">>],
    [in |-> <<">", "a", "a", "a", "a", "a", "a", "a">>,
     out |-> <<"\"", "\\", "u", "0", "0", "3", "e", "a", "a", "a", "a", "a", "a", "a", "\"">>],
    [in |-> <<"a", "a", "a", "a", "a", "a", "a", ">">>,
     out |-> <<"\"", "a", "a", "a", "a", "a", "a", "a", "\\", "u", "0", "0", "3", "e", "\"">>],
    [in |-> <<"a", "a", "a", "a", "a", "a", "a", "a", ">">>,
     out |-> <<"\"", "a", "a", "a", "a", "a", "a", "a", "a", "\\", "u", "0", "0", "3", "e", "\"">>],
    [in |-> <<"a", "a", "a", "a", "a", "a", "a", "a", "b", "b", ">", "c", "c", "c", "c", "c", "d">>,
     out |-> <<"\"", "a", "a", "a", "a", "a", "a", "a", "a", "b", "b", "\\", "u", "0", "0", "3", "e", "c", "c", "c", "c", "c", "d", "\"">>],
    [in |-> <<"a", "&", "b">>,
     out |-> <<"\"", "a", "\\", "u", "0", "0", "2", "6", "b", "\"">>],
    [in |-> <<"&", "a", "a", "a", "a", "a", "a", "a">>,
     out |-> <<"\"", "\\", "u", "0", "0", "2", "6", "a", "a", "a", "a", "a", "a", "a", "\"">>],
    [in |-> <<"a", "a", "a", "a", "a", "a", "a", "&">>,
     out |-> <<"\"", "a", "a", "a", "a", "a", "a", "a", "\\", "u", "0", "0", "2", "6", "\"">>],
    [in |-> <<"a", "a", "a", "a", "a", "a", "a", "a", "&">>,
     out |-> <<"\"", "a", "a", "a", "a", "a", "a", "a", "a", "\\", "u", "0", "0", "2", "6", "\"">>],
    [in |-> <<"a", "a", "a", "a", "a", "a", "a", "a", "b", "b", "&", "c", "c", "c", "c", "c", "d">>,
     out |-> <<"\"", "a", "a", "a", "a", "a", "a", "a", "a", "b", "b", "\\", "u", "0", "0", "2", "6", "c", "c", "c", "c", "c", "d", "\"">>],
    [in |-> <<"a", "\n", "b">>,
     out |-> <<"\"", "a", "\\", "n", "b", "\"">>],
    [in |-> <<"\n", "a", "a", "a", "a", "a", "a", "a">>,
     out |-> <<"\"", "\\", "n", "a", "a", "a", "a", "a", "a", "a", "\"">>],
    [in |-> <<"a", "a", "a", "a", "a", "a", "a", "\n">>,
     out |-> <<"\"", "a", "a", "a", "a", "a", "a", "a", "\\", "n", "\"">>],
    [in |-> <<"a", "a", "a", "a", "a", "a", "a", "a", "\n">>,
     out |-> <<"\"", "a", "a", "a", "a", "a", "a", "a", "a", "\\", "n", "\"">>],
    [in |-> <<"a", "a", "a", "a", "a", "a", "a", "a", "b", "b", "\n", "c", "c", "c", "c", "c", "d">>,
     out |-> <<"\"", "a", "a", "a", "a", "a", "a", "a", "a", "b", "b", "\\", "n", "c", "c", "c", "c", "c", "d", "\"">>],
    [in |-> <<"a", "\r", "b">>,
     out |-> <<"\"", "a", "\\", "r", "b", "\"">>],
    [in |-> <<"\r", "a", "a", "a", "a", "a", "a", "a">>,
     out |-> <<"\"", "\\", "r", "a", "a", "a", "a", "a", "a", "a", "\"">>],
    [in |-> <<"a", "a", "a", "a", "a", "a", "a", "\r">>,
     out |-> <<"\"", "a", "a", "a", "a", "a", "a", "a", "\\", "r", "\"">>],
    [in |-> <<"a", "a", "a", "a", "a", "a", "a", "a", "\r">>,
     out |-> <<"\"", "a", "a", "a", "a", "a", "a", "a", "a", "\\", "r", "\"">>],
    [in |-> <<"a", "a", "a", "a", "a", "a", "a", "a", "b", "b", "\r", "c", "c", "c", "c", "c", "d">>,
     out |-> <<"\"", "a", "a", "a", "a", "a", "a", "a", "a", "b", "b", "\\", "r", "c", "c", "c", "c", "c", "d", "\"">>],
    [in |-> <<"a", "\t", "b">>,
     out |-> <<"\"", "a", "\\", "t", "b", "\"">>],
    [in |-> <<"\t", "a", "a", "a", "a", "a", "a", "a">>,
     out |-> <<"\"", "\\", "t", "a", "a", "a", "a", "a", "a", "a", "\"">>],
    [in |-> <<"a", "a", "a", "a", "a", "a", "a", "\t">>,
     out |-> <<"\"", "a", "a", "a", "a", "a", "a", "a", "\\", "t", "\"">>],
    [in |-> <<"a", "a", "a", "a", "a", "a", "a", "a", "\t">>,
     out |-> <<"\"", "a", "a", "a", "a", "a", "a", "a", "a", "\\", "t", "\"">>],
    [in |-> <<"a", "a", "a", "a", "a", "a", "a", "a", "b", "b", "\t", "c", "c", "c", "c", "c", "d">>,
     out |-> <<"\"", "a", "a", "a", "a", "a", "a", "a", "a", "b", "b", "\\", "t", "c", "c", "c", "c", "c", "d", "\"">>],
    [in |-> <<"a", "\f", "b">>,
     out |-> <<"\"", "a", "\\", "u", "0", "0", "0", "c", "b", "\"">>],
    [in |-> <<"\f", "a", "a", "a", "a", "a", "a", "a">>,
     out |-> <<"\"", "\\", "u", "0", "0", "0", "c", "a", "a", "a", "a", "a", "a", "a", "\"">>],
    [in |-> <<"a", "a", "a", "a", "a", "a", "a", "\f">>,
     out |-> <<"\"", "a", "a", "a", "a", "a", "a", "a", "\\", "u", "0", "0", "0", "c", "\"">>],
    [in |-> <<"a", "a", "a", "a", "a", "a", "a", "a", "\f">>,
     out |-> <<"\"", "a", "a", "a", "a", "a", "a", "a", "a", "\\", "u", "0", "0", "0", "c", "\"">>],
    [in |-> <<"a", "a", "a", "a", "a", "a", "a", "a", "b", "b", "\f", "c", "c", "c", "c", "c", "d">>,
     out |-> <<"\"", "a", "a", "a", "a", "a", "a", "a", "a", "b", "b", "\\", "u", "0", "0", "0", "c", "c", "c", "c", "c", "c", "d", "\"">>],
    [in |-> <<"a", "01", "b">>,
     out |-> <<"\"", "a", "\\", "u", "0", "0", "0", "1", "b", "\"">>],
    [in |-> <<"01", "a", "a", "a", "a", "a", "a", "a">>,
     out |-> <<"\"", "\\", "u", "0", "0", "0", "1", "a", "a", "a", "a", "a", "a", "a", "\"">>],
    [in |-> <<"a", "a", "a", "a", "a", "a", "a", "01">>,
     out |-> <<"\"", "a", "a", "a", "a", "a", "a", "a", "\\", "u", "0", "0", "0", "1", "\"">>],
    [in |-> <<"a", "a", "a", "a", "a", "a", "a", "a", "01">>,
     out |-> <<"\"", "a", "a", "a", "a", "a", "a", "a", "a", "\\", "u", "0", "0", "0", "1", "\"">>],
    [in |-> <<"a", "a", "a", "a", "a", "a", "a", "a", "b", "b", "01", "c", "c", "c", "c", "c", "d">>,
     out |-> <<"\"", "a", "a", "a", "a", "a", "a", "a", "a", "b", "b", "\\", "u", "0", "0", "0", "1", "c", "c", "c", "c", "c", "d", "\"">>],
    [in |-> <<"a", "1F", "b">>,
     out |-> <<"\"", "a", "\\", "u", "0", "0", "1", "f", "b", "\"">>],
    [in |-> <<"1F", "a", "a", "a", "a", "a", "a", "a">>,
     out |-> <<"\"", "\\", "u", "0", "0", "1", "f", "a", "a", "a", "a", "a", "a", "a", "\"">>],
    [in |-> <<"a", "a", "a", "a", "a", "a", "a", "1F">>,
     out |-> <<"\"", "a", "a", "a", "a", "a", "a", "a", "\\", "u", "0", "0", "1", "f", "\"">>],
    [in |-> <<"a", "a", "a", "a", "a", "a", "a", "a", "1F">>,
     out |-> <<"\"", "a", "a", "a", "a", "a", "a", "a", "a", "\\", "u", "0", "0", "1", "f", "\"">>],
    [in |-> <<"a", "a", "a", "a", "a", "a", "a", "a", "b", "b", "1F", "c", "c", "c", "c", "c", "d">>,
     out |-> <<"\"", "a", "a", "a", "a", "a", "a", "a", "a", "b", "b", "\\", "u", "0", "0", "1", "f", "c", "c", "c", "c", "c", "d", "\"">>],
    [in |-> <<"a", "7F", "b">>,
     out |-> <<"\"", "a", "7F", "b", "\"">>],
    [in |-> <<"7F", "a", "a", "a", "a", "a", "a", "a">>,
     out |-> <<"\"", "7F", "a", "a", "a", "a", "a", "a", "a", "\"">>],
    [in |-> <<"a", "a", "a", "a", "a", "a", "a", "7F">>,
     out |-> <<"\"", "a", "a", "a", "a", "a", "a", "a", "7F", "\"">>],
    [in |-> <<"a", "a", "a", "a", "a", "a", "a", "a", "7F">>,
     out |-> <<"\"", "a", "a", "a", "a", "a", "a", "a", "a", "7F", "\"">>],
    [in |-> <<"a", "a", "a", "a", "a", "a", "a", "a", "b", "b", "7F", "c", "c", "c", "c", "c", "d">>,
     out |-> <<"\"", "a", "a", "a", "a", "a", "a", "a", "a", "b", "b", "7F", "c", "c", "c", "c", "c", "d", "\"">>],
    [in |-> <<"a", "FF", "b">>,
     out |-> <<"\"", "a", "\\", "u", "f", "f", "f", "d", "b", "\"">>],
    [in |-> <<"FF", "a", "a", "a", "a", "a", "a", "a">>,
     out |-> <<"\"", "\\", "u", "f", "f", "f", "d", "a", "a", "a", "a", "a", "a", "a", "\"">>],
    [in |-> <<"a", "a", "a", "a", "a", "a", "a", "FF">>,
     out |-> <<"\"", "a", "a", "a", "a", "a", "a", "a", "\\", "u", "f", "f", "f", "d", "\"">>],
    [in |-> <<"a", "a", "a", "a", "a", "a", "a", "a", "FF">>,
     out |-> <<"\"", "a", "a", "a", "a", "a", "a", "a", "a", "\\", "u", "f", "f", "f", "d", "\"">>],
    [in |-> <<"a", "a", "a", "a", "a", "a", "a", "a", "b", "b", "FF", "c", "c", "c", "c", "c", "d">>,
     out |-> <<"\"", "a", "a", "a", "a", "a", "a", "a", "a", "b", "b", "\\", "u", "f", "f", "f", "d", "c", "c", "c", "c", "c", "d", "\"">>],
    [in |-> <<"a", "80", "b">>,
     out |-> <<"\"", "a", "\\", "u", "f", "f", "f", "d", "b", "\"">>],
    [in |-> <<"80", "a", "a", "a", "a", "a", "a", "a">>,
     out |-> <<"\"", "\\", "u", "f", "f", "f", "d", "a", "a", "a", "a", "a", "a", "a", "\"">>],
    [in |-> <<"a", "a", "a", "a", "a", "a", "a", "80">>,
     out |-> <<"\"", "a", "a", "a", "a", "a", "a", "a", "\\", "u", "f", "f", "f", "d", "\"">>],
    [in |-> <<"a", "a", "a", "a", "a", "a", "a", "a", "80">>,
     out |-> <<"\"", "a", "a", "a", "a", "a", "a", "a", "a", "\\", "u", "f", "f", "f", "d", "\"">>],
    [in |-> <<"a", "a", "a", "a", "a", "a", "a", "a", "b", "b", "80", "c", "c", "c", "c", "c", "d">>,
     out |-> <<"\"", "a", "a", "a", "a", "a", "a", "a", "a", "b", "b", "\\", "u", "f", "f", "f", "d", "c", "c", "c", "c", "c", "d", "\"">>],
    [in |-> <<"a", "C3", "A9", "b">>,
     out |-> <<"\"", "a", "C3", "A9", "b", "\"">>],
    [in |-> <<"C3", "A9", "a", "a", "a", "a", "a", "a">>,
     out |-> <<"\"", "C3", "A9", "a", "a", "a", "a", "a", "a", "\"">>],
    [in |-> <<"a", "a", "a", "a", "a", "a", "C3", "A9">>,
     out |-> <<"\"", "a", "a", "a", "a", "a", "a", "C3", "A9", "\"">>],
    [in |-> <<"a", "a", "a", "a", "a", "a", "a", "a", "C3", "A9">>,
     out |-> <<"\"", "a", "a", "a", "a", "a", "a", "a", "a", "C3", "A9", "\"">>],
    [in |-> <<"a", "a", "a", "a", "a", "a", "a", "a", "b", "b", "C3", "A9", "c", "c", "c", "c", "d">>,
     out |-> <<"\"", "a", "a", "a", "a", "a", "a", "a", "a", "b", "b", "C3", "A9", "c", "c", "c", "c", "d", "\"">>],
    [in |-> <<"a", "E2", "80", "A8", "b">>,
     out |-> <<"\"", "a", "\\", "u", "2", "0", "2", "8", "b", "\"">>],
    [in |-> <<"E2", "80", "A8", "a", "a", "a", "a", "a">>,
     out |-> <<"\"", "\\", "u", "2", "0", "2", "8", "a", "a", "a", "a", "a", "\"">>],
    [in |-> <<"a", "a", "a", "a", "a", "E2", "80", "A8">>,
     out |-> <<"\"", "a", "a", "a", "a", "a", "\\", "u", "2", "0", "2", "8", "\"">>],
    [in |-> <<"a", "a", "a", "a", "a", "a", "a", "a", "E2", "80", "A8">>,
     out |-> <<"\"", "a", "a", "a", "a", "a", "a", "a", "a", "\\", "u", "2", "0", "2", "8", "\"">>],
    [in |-> <<"a", "a", "a", "a", "a", "a", "a", "a", "b", "b", "E2", "80", "A8", "c", "c", "c", "d">>,
     out |-> <<"\"", "a", "a", "a", "a", "a", "a", "a", "a", "b", "b", "\\", "u", "2", "0", "2", "8", "c", "c", "c", "d", "\"">>],
    [in |-> <<"a", "E2", "80", "A9", "b">>,
     out |-> <<"\"", "a", "\\", "u", "2", "0", "2", "9", "b", "\"">>],
    [in |-> <<"E2", "80", "A9", "a", "a", "a", "a", "a">>,
     out |-> <<"\"", "\\", "u", "2", "0", "2", "9", "a", "a", "a", "a", "a", "\"">>],
    [in |-> <<"a", "a", "a", "a", "a", "E2", "80", "A9">>,
     out |-> <<"\"", "a", "a", "a", "a", "a", "\\", "u", "2", "0", "2", "9", "\"">>],
    [in |-> <<"a", "a", "a", "a", "a", "a", "a", "a", "E2", "80", "A9">>,
     out |-> <<"\"", "a", "a", "a", "a", "a", "a", "a", "a", "\\", "u", "2", "0", "2", "9", "\"">>],
    [in |-> <<"a", "a", "a", "a", "a", "a", "a", "a", "b", "b", "E2", "80", "A9", "c", "c", "c", "d">>,
     out |-> <<"\"", "a", "a", "a", "a", "a", "a", "a", "a", "b", "b", "\\", "u", "2", "0", "2", "9", "c", "c", "c", "d", "\"">>],
    [in |-> <<"a", "EF", "BF", "BD", "b">>,
     out |-> <<"\"", "a", "EF", "BF", "BD", "b", "\"">>],
    [in |-> <<"EF", "BF", "BD", "a", "a", "a", "a", "a">>,
     out |-> <<"\"", "EF", "BF", "BD", "a", "a", "a", "a", "a", "\"">>],
    [in |-> <<"a", "a", "a", "a", "a", "EF", "BF", "BD">>,
     out |-> <<"\"", "a", "a", "a", "a", "a", "EF", "BF", "BD", "\"">>],
    [in |-> <<"a", "a", "a", "a", "a", "a", "a", "a", "EF", "BF", "BD">>,
     out |-> <<"\"", "a", "a", "a", "a", "a", "a", "a", "a", "EF", "BF", "BD", "\"">>],
    [in |-> <<"a", "a", "a", "a", "a", "a", "a", "a", "b", "b", "EF", "BF", "BD", "c", "c", "c", "d">>,
     out |-> <<"\"", "a", "a", "a", "a", "a", "a", "a", "a", "b", "b", "EF", "BF", "BD", "c", "c", "c", "d", "\"">>],
    [in |-> <<"a", "C3", "b">>,
     out |-> <<"\"", "a", "\\", "u", "f", "f", "f", "d", "b", "\"">>],
    [in |-> <<"C3", "a", "a", "a", "a", "a", "a", "a">>,
     out |-> <<"\"", "\\", "u", "f", "f", "f", "d", "a", "a", "a", "a", "a", "a", "a", "\"">>],
    [in |-> <<"a", "a", "a", "a", "a", "a", "a", "C3">>,
     out |-> <<"\"", "a", "a", "a", "a", "a", "a", "a", "\\", "u", "f", "f", "f", "d", "\"">>],
    [in |-> <<"a", "a", "a", "a", "a", "a", "a", "a", "C3">>,
     out |-> <<"\"", "a", "a", "a", "a", "a", "a", "a", "a", "\\", "u", "f", "f", "f", "d", "\"">>],
    [in |-> <<"a", "a", "a", "a", "a", "a", "a", "a", "b", "b", "C3", "c", "c", "c", "c", "c", "d">>,
     out |-> <<"\"", "a", "a", "a", "a", "a", "a", "a", "a", "b", "b", "\\", "u", "f", "f", "f", "d", "c", "c", "c", "c", "c", "d", "\"">>],
    [in |-> <<"a", "E2", "80", "b">>,
     out |-> <<"\"", "a", "\\", "u", "f", "f", "f", "d", "\\", "u", "f", "f", "f", "d", "b", "\"">>],
    [in |-> <<"E2", "80", "a", "a", "a", "a", "a", "a">>,
     out |-> <<"\"", "\\", "u", "f", "f", "f", "d", "\\", "u", "f", "f", "f", "d", "a", "a", "a", "a", "a", "a", "\"">>],
    [in |-> <<"a", "a", "a", "a", "a", "a", "E2", "80">>,
     out |-> <<"\"", "a", "a", "a", "a", "a", "a", "\\", "u", "f", "f", "f", "d", "\\", "u", "f", "f", "f", "d", "\"">>],
    [in |-> <<"a", "a", "a", "a", "a", "a", "a", "a", "E2", "80">>,
     out |-> <<"\"", "a", "a", "a", "a", "a", "a", "a", "a", "\\", "u", "f", "f", "f", "d", "\\", "u", "f", "f", "f", "d", "\"">>],
    [in |-> <<"a", "a", "a", "a", "a", "a", "a", "a", "b", "b", "E2", "80", "c", "c", "c", "c", "d">>,
     out |-> <<"\"", "a", "a", "a", "a", "a", "a", "a", "a", "b", "b", "\\", "u", "f", "f", "f", "d", "\\", "u", "f", "f", "f", "d", "c", "c", "c", "c", "d", "\"">>],
    [in |-> <<"a">>,
     out |-> <<"\"", "a", "\"">>],
    [in |-> <<"a", "a", "a", "a", "a", "a", "a">>,
     out |-> <<"\"", "a", "a", "a", "a", "a", "a", "a", "\"">>],
    [in |-> <<"a", "a", "a", "a", "a", "a", "a", "a">>,
     out |-> <<"\"", "a", "a", "a", "a", "a", "a", "a", "a", "\"">>],
    [in |-> <<"a", "a", "a", "a", "a", "a", "a", "a", "a">>,
     out |-> <<"\"", "a", "a", "a", "a", "a", "a", "a", "a", "a", "\"">>],
    [in |-> <<"a", "a", "a", "a", "a", "a", "a", "a", "a", "a", "a", "a", "a", "a", "a", "a">>,
     out |-> <<"\"", "a", "a", "a", "a", "a", "a", "a", "a", "a", "a", "a", "a", "a", "a", "a", "a", "\"">>],
    [in |-> <<"a", "a", "a", "a", "a", "a", "a", "a", "a", "a", "a", "a", "a", "a", "a", "a", "a">>,
     out |-> <<"\"", "a", "a", "a", "a", "a", "a", "a", "a", "a", "a", "a", "a", "a", "a", "a", "a", "a", "\"">>],
    [in |-> <<"a", "a", "a", "a", "a", "a", "a", "a", "b", "b", "b", "b", "b", "b", "b", "\"">>,
     out |-> <<"\"", "a", "a", "a", "a", "a", "a", "a", "a", "b", "b", "b", "b", "b", "b", "b", "\\", "\"", "\"">>],
    [in |-> <<"\"", "a", "a", "a", "a", "a", "a", "a", "b", "b", "b", "<", "c", "c", "c", "c", "\n">>,
     out |-> <<"\"", "\\", "\"", "a", "a", "a", "a", "a", "a", "a", "b", "b", "b", "\\", "u", "0", "0", "3", "c", "c", "c", "c", "c", "\\", "n", "\"">>],
    [in |-> <<"x", "\"", "<", "\n", "\\">>,
     out |-> <<"\"", "x", "\\", "\"", "\\", "u", "0", "0", "3", "c", "\\", "n", "\\", "\\", "\"">>] }

EscapeInputs == { c.in : c \in EscapeCases }

\* one Set of a fresh Map, the string being the key that JSONLine is to write
InitEscape ==
  /\ docs = <<NewMap>>
  /\ sm = NoStrMap
  /\ iters = <<>>
  /\ last = "new"
  /\ panicked = FALSE
  /\ calls = 1

NextEscape ==
  Tick /\ \E d \in DocIds(docs), s \in EscapeInputs : SetCall(d, s, VNil)

SpecEscape == InitEscape /\ [][NextEscape]_vars

RECURSIVE ValidBody(_, _)
\* what stands between the quotes of a JSON string literal, from place k on: a
\* backslash starts \", \\, \n, \r, \t or \u and four hex digits, and no
\* other quote, no control byte and no <, > or & stands there
ValidBody(body, k) ==
  LET hex == Digits \cup { "a", "b", "c", "d", "e", "f" }
  IN IF k > Len(body) THEN TRUE
     ELSE IF body[k] = "\\"
       THEN /\ k < Len(body)
            /\ IF body[k + 1] = "u"
               THEN /\ k + 5 <= Len(body)
                    /\ \A m \in (k + 2)..(k + 5) : body[m] \in hex
                    /\ ValidBody(body, k + 6)
               ELSE /\ body[k + 1] \in { "\"", "\\", "n", "r", "t" }
                    /\ ValidBody(body, k + 2)
     ELSE /\ body[k] \notin { "\"", "<", ">", "&", "\t", "\n", "\f", "\r", "01", "1F" }
          /\ ValidBody(body, k + 1)

\* C27: encodeString writes a string literal: a quote, then the bytes of the
\* string with every quote and backslash behind a backslash, line feed,
\* carriage return and tab as \n, \r and \t, every other control byte and
\* every <, > and & as \u00XX, every byte that starts no well-formed UTF-8
\* encoding as \ufffd, U+2028 and U+2029 as \u2028 and \u2029 and every other
\* byte as it is, then a quote; so for strings shorter than 8 bytes, of 8 bytes
\* and longer, and the empty string is "".
C27_EncodeString ==
  /\ encodeString(<<>>) = <<"\"", "\"">>
  /\ \A d \in DocIds(docs) :
       \A i \in 1..Len(docs[d].ordKeys) :
         LET s == docs[d].ordKeys[i]
             out == encodeString(s)
         IN /\ Len(out) >= 2 /\ out[1] = "\"" /\ out[Len(out)] = "\""
            /\ ValidBody(SubSeq(out, 2, Len(out) - 1), 1)
            /\ \E c \in EscapeCases : c.in = s /\ c.out = out
            /\ JSONLine(docs, d) = <<"{">> \o out \o <<":", "n", "u", "l", "l", "}">>

\* a Map whose key has 17 bytes, a quote among its second 8, written with the
\* quote behind a backslash
C27_Witness ==
  \E d \in DocIds(docs) :
    /\ Len(docs[d].ordKeys) = 1
    /\ Len(docs[d].ordKeys[1]) = 17
    /\ docs[d].ordKeys[1][11] = "\""
    /\ Contains(JSONLine(docs, d), <<"b", "b", "\\", "\"", "c">>)

(***************************************************************************)
(* C28                                                                     *)
(***************************************************************************)
RECURSIVE EntryChains(_, _)
\* the live entries at every depth under d, each as the chain of keys and
\* indexes that leads to it from d
EntryChains(h, d) ==
  LET keys == Keys(h, d)
      slot(j) == IF IsArray(h, d) THEN j ELSE LiveSlots(h[d])[j]
  IN UNION { { <<keys[j]>> }
               \cup (IF IsDoc(h[d].values[slot(j)])
                     THEN { <<keys[j]>> \o c :
                              c \in EntryChains(h, h[d].values[slot(j)].n) }
                     ELSE {})
             : j \in 1..Len(keys) }

\* the value of the entry a chain leads to
ValueAt(h, d, chain) == EntryAt(h, d, chain).v

\* the calls are one per live entry at every depth, each with the keys of its
\* chain joined by slashes and with its value, the call for a container's
\* entry before the calls for the entries inside it
VisitedOncePerEntry(h, d, made) ==
  LET chains == EntryChains(h, d)
      callOf(c, i) == /\ made[i].path = JoinWith(c, <<"/">>)
                      /\ made[i].value = ValueAt(h, d, c)
  IN /\ Len(made) = Cardinality(chains)
     /\ \A c \in chains : \E i \in 1..Len(made) : callOf(c, i)
     /\ \A c \in chains :
          Len(c) > 1 =>
            \E i, j \in 1..Len(made) :
              i < j /\ callOf(SubSeq(c, 1, Len(c) - 1), i) /\ callOf(c, j)
     /\ \A i \in 1..Len(made) : made[i].value # gDeletedEntry

\* the tree of TestVisit: four Sets on a fresh Map
VisitTestTree ==
  LET h0 == <<NewMap>>
      h1 == Set(h0, 1, <<"H", "i", "s", "t", "o", "r", "y", "/", "0", "/", "T", "i", "m", "e", "s", "t", "a", "m", "p">>, VInt(1))
      h2 == Set(h1, 1, <<"H", "i", "s", "t", "o", "r", "y", "/", "0", "/", "A", "p", "p", "r", "o", "v", "e">>, VBool(TRUE))
      h3 == Set(h2, 1, <<"A", "p", "p">>, VBool(TRUE))
  IN Set(h3, 1, <<"H", "i", "s", "t", "o", "r", "y", "/", "1", "/", "A", "p", "p", "r", "o", "v", "e">>, VBool(TRUE))

\* C28: Visit of any document returns, having called the callback once for
\* every live entry at every depth and for nothing else, with the path of the
\* entry from the root joined by slashes and with its value, a container's
\* entry before the entries inside it; so for built and for parsed documents,
\* a parsed empty key included; on the tree of TestVisit it makes 7 calls.
C28_VisitOncePerEntry ==
  /\ \A d \in DocIds(docs) :
       Acyclic(docs, d) /\ VisitedOncePerEntry(docs, d, Visit(docs, d))
  /\ \A data \in { <<"{", "\"", "a", "\"", ":", "[", "{", "\"", "b", "\"", ":", "1", ".", "5", "0", "}", "]", ",", "\"", "c", "\"", ":", "n", "u", "l", "l", "}">>,
                    <<"{", "\"", "\"", ":", "{", "\"", "a", "\"", ":", "1", "}", ",", "\"", "a", "\"", ":", "2", "}">> } :
       LET r == Parse(docs, data)
       IN ~r.err /\ VisitedOncePerEntry(r.h, r.d, Visit(r.h, r.d))
  /\ Len(Visit(VisitTestTree, 1)) = 7

(***************************************************************************)
(* C29                                                                     *)
(***************************************************************************)
\* r is what a get-or-create of a container of the wanted variant under name
\* gives on the document d of the heap h: the child that is there, with nothing
\* changed, or a new empty container stored under name, in the slot the name
\* has if it is live, in a new last slot of a Map if it is not, and in an Array
\* at its index behind nulls for the indexes the Array did not reach
GetOrCreate(h, d, name, r, wantArray) ==
  LET e == get(h, d, name)
      i == key2Index(name)
      n == Len(h[d].values)
  IN IF e.ok /\ IsDoc(e.v) /\ (IsArray(h, e.v.n) <=> wantArray)
     THEN r.d = e.v.n /\ r.h = h /\ ~r.panic
     ELSE /\ ~r.panic
          /\ Len(r.h) = Len(h) + 1 /\ r.d = Len(h) + 1
          /\ r.h[r.d] = (IF wantArray THEN NewArray ELSE NewMap)
          /\ get(r.h, d, name) = [v |-> VDoc(r.d), ok |-> TRUE]
          /\ \A x \in DocIds(h) \ { d } : r.h[x] = h[x]
          /\ r.h[d].iterCounter = h[d].iterCounter
          /\ IF IsArray(h, d)
             THEN /\ Len(r.h[d].values) = (IF i < n THEN n ELSE i + 1)
                  /\ \A k \in 1..Len(r.h[d].values) :
                       k # i + 1 =>
                         r.h[d].values[k] = (IF k <= n THEN h[d].values[k] ELSE VNil)
             ELSE IF e.ok
             THEN /\ r.h[d].keys = h[d].keys
                  /\ r.h[d].ordKeys = h[d].ordKeys
                  /\ \A k \in 1..n : k # h[d].keys[name] + 1 =>
                                       r.h[d].values[k] = h[d].values[k]
             ELSE /\ r.h[d].ordKeys = Append(h[d].ordKeys, name)
                  /\ r.h[d].values = Append(h[d].values, VDoc(r.d))

\* the names and indexes the accessors are checked with
CreateNames == AccessorNames \cup { <<"b">>, <<"1">> }

CreateIndexes == { 0, 1, 2 }

\* the claim as it is worded, for every receiver: Array, Map, ArrayI and MapI
\* get or create, and SetI on a Map stores under the decimal text of the index
C29_Original ==
  /\ \A d \in DocIds(docs), name \in CreateNames :
       /\ GetOrCreate(docs, d, name, Array(docs, d, name), TRUE)
       /\ GetOrCreate(docs, d, name, Map(docs, d, name), FALSE)
  /\ \A d \in DocIds(docs), i \in CreateIndexes :
       IF IsArray(docs, d)
       THEN /\ GetOrCreate(docs, d, Sprint(i), ArrayI(docs, d, i), TRUE)
            /\ GetOrCreate(docs, d, Sprint(i), MapI(docs, d, i), FALSE)
       ELSE \A v \in Values(docs) :
              /\ ~SetI(docs, d, i, v).err
              /\ get(SetI(docs, d, i, v).h, d, Sprint(i)) = [v |-> v, ok |-> TRUE]

\* the receiver takes an entry under name: it is not frozen, and name is an
\* index if it is an Array
TakesEntry(h, d, name) ==
  ~IsFrozen(h, d) /\ (IsArray(h, d) => key2Index(name) >= 0)

\* what the accessors do on a receiver that takes no entry under name: the
\* child that is there, or a new empty container that is stored nowhere
FoundOrDetached(h, d, name, r, wantArray) ==
  LET e == get(h, d, name)
  IN /\ ~r.panic
     /\ IF e.ok /\ IsDoc(e.v) /\ (IsArray(h, e.v.n) <=> wantArray)
        THEN r.d = e.v.n /\ r.h = h
        ELSE /\ r.d = Len(h) + 1
             /\ r.h = Append(h, IF wantArray THEN NewArray ELSE NewMap)

\* C29: on a receiver that is not frozen, Array(name) and Map(name), with a
\* name that is a decimal index if the receiver is an Array, return the child
\* of the wanted variant that the entry holds and change nothing, or else
\* store a new empty container of that variant under the name, in the slot of
\* the name if it is live, and return it; ArrayI(i) and MapI(i) with i >= 0 do
\* so on an Array by index, with nulls for the indexes the Array did not
\* reach; SetI(i, v) on a Map stores v under the decimal text of i.  On any
\* other receiver the accessors return the child that is there or a new empty
\* container that is stored nowhere, and SetI stores nothing.
C29_GetOrCreate ==
  /\ \A d \in DocIds(docs), name \in CreateNames :
       IF TakesEntry(docs, d, name)
       THEN /\ GetOrCreate(docs, d, name, Array(docs, d, name), TRUE)
            /\ GetOrCreate(docs, d, name, Map(docs, d, name), FALSE)
       ELSE /\ FoundOrDetached(docs, d, name, Array(docs, d, name), TRUE)
            /\ FoundOrDetached(docs, d, name, Map(docs, d, name), FALSE)
  /\ \A d \in DocIds(docs), i \in CreateIndexes :
       IF IsArray(docs, d)
       THEN IF TakesEntry(docs, d, Sprint(i))
            THEN /\ GetOrCreate(docs, d, Sprint(i), ArrayI(docs, d, i), TRUE)
                 /\ GetOrCreate(docs, d, Sprint(i), MapI(docs, d, i), FALSE)
            ELSE /\ FoundOrDetached(docs, d, Sprint(i), ArrayI(docs, d, i), TRUE)
                 /\ FoundOrDetached(docs, d, Sprint(i), MapI(docs, d, i), FALSE)
       ELSE \A v \in Values(docs) :
              LET r == SetI(docs, d, i, v)
              IN IF IsFrozen(docs, d) THEN r.err /\ r.h = docs
                 ELSE ~r.err /\ get(r.h, d, Sprint(i)) = [v |-> v, ok |-> TRUE]

\* a Map that is not frozen holds an empty Array under a, put there by a call:
\* Array("a") returns that Array and Map("a") would put a new Map in its slot
C29_Witness ==
  \E d \in DocIds(docs) :
    /\ last = "call"
    /\ ~IsArray(docs, d) /\ ~IsFrozen(docs, d)
    /\ docs[d].ordKeys = << <<"a">> >>
    /\ IsDoc(docs[d].values[1])
    /\ docs[docs[d].values[1].n] = NewArray
    /\ Array(docs, d, <<"a">>).d = docs[d].values[1].n
    /\ Map(docs, d, <<"a">>).d = Len(docs) + 1
    /\ Map(docs, d, <<"a">>).h[d].ordKeys = << <<"a">> >>

(***************************************************************************)
(* C30                                                                     *)
(***************************************************************************)
\* the clone c of d against d: the same variant, the same live keys in the
\* same order, the same text at every depth, IsEqual whichever of the two is
\* the receiver, the same answer from every getter, and d left as it was
CloneMatches(h, d) ==
  LET c == Clone(h, d)
      di == 0 - 7
      ds == <<"d">>
      df == [m |-> 5, e |-> 0 - 1]
  IN /\ c.d \notin DocIds(h)
     /\ \A x \in DocIds(h) : c.h[x] = h[x]
     /\ IsArray(c.h, c.d) = IsArray(h, d)
     /\ Keys(c.h, c.d) = Keys(h, d)
     /\ JSONLine(c.h, c.d) = JSONLine(h, d)
     /\ IsEqual(c.h, d, c.d)
     /\ IsEqual(c.h, c.d, d)
     /\ \A p \in Paths :
          /\ GetInt(c.h, c.d, p, di).v = GetInt(h, d, p, di).v
          /\ GetFloat(c.h, c.d, p, df).v = GetFloat(h, d, p, df).v
          /\ GetString(c.h, c.d, p, ds).v = GetString(h, d, p, ds).v
          /\ \A db \in BOOLEAN : GetBool(c.h, c.d, p, db).v = GetBool(h, d, p, db).v

\* C30: for every document d, one from Parse, one with tombstoned slots and a
\* frozen one included, d.Clone() returns a document of the same variant with
\* the same live keys in the same order and equal values at every depth:
\* IsEqual(d, d.Clone()) is true and every getter returns on the clone what it
\* returns on d.
C30_CloneEqual ==
  \A d \in DocIds(docs) : Acyclic(docs, d) /\ CloneMatches(docs, d)

(***************************************************************************)
(* C31                                                                     *)
(***************************************************************************)
\* the paths tried on the nil document: those of the calls and two that begin
\* with a slash
NilPaths == Paths \cup { <<"/">>, <<"/", "a">> }

\* as the claim has it: on the nil document Fetch finds nothing, whatever the
\* path
C31_Original ==
  \A p \in NilPaths : ~Fetch(docs, NilDoc, p).ok

\* C31: on the nil document Fetch, Get, Has, Len, Delete and Iterate change
\* nothing and do not panic; Has is false and Len is 0; no callback runs for
\* the nil document or for the nil StrMap; Fetch and Get find nothing under a
\* path that has a segment, and give the nil document itself, as found, for
\* the empty path and a path of slashes only; on the nil StrMap Get finds
\* nothing, Has is false, Len is 0 and Delete and Iterate leave it nil.
C31_NilIsSafe ==
  /\ ~panicked
  /\ sm = NoStrMap
  /\ \A a \in 1..Len(iters) : iters[a].kind = "Iterate" /\ iters[a].d # NilDoc
  /\ StrMapLen(sm) = 0
  /\ \A key \in PackKeys :
       /\ StrMapGet(sm, key) = [v |-> VNil, ok |-> FALSE]
       /\ ~StrMapHas(sm, key)
       /\ StrMapDelete(sm, key) = sm
  /\ Len_(docs, NilDoc) = 0
  /\ \A p \in NilPaths :
       LET f == Fetch(docs, NilDoc, p)
           g == Get(docs, NilDoc, p)
           d == Delete(docs, NilDoc, p)
       IN /\ f.h = docs /\ g.h = docs
          /\ Has(docs, NilDoc, p) = [h |-> docs, ok |-> FALSE]
          /\ d = [h |-> docs, err |-> FALSE]
          /\ IF \E k \in 1..Len(p) : p[k] # "/"
             THEN ~f.ok /\ f.v = VNil /\ g.v = VNil
             ELSE f.ok /\ f.v = VDoc(NilDoc) /\ g.v = VDoc(NilDoc)

\* all the calls were made with no document there, the last of them a read:
\* each had the nil document for its receiver
C31_Witness ==
  /\ docs = <<>> /\ calls = 0 /\ last = "read"
  /\ iters = <<>> /\ ~panicked
  /\ ~Fetch(docs, NilDoc, <<"a">>).ok

(***************************************************************************)
(* C32                                                                     *)
(***************************************************************************)
\* the index of the Map d and its slots that hold no gDeletedEntry match one
\* to one: a key of the index points to a slot inside values that holds no
\* gDeletedEntry and has the key in ordKeys, every such slot is the slot of
\* exactly one key, and there are as many keys as such slots
WellIndexed(h, d) ==
  LET m == h[d]
      live == { j \in 0..(Len(m.values) - 1) : m.values[j + 1] # gDeletedEntry }
  IN /\ Len(m.ordKeys) = Len(m.values)
     /\ \A k \in DOMAIN m.keys :
          /\ m.keys[k] \in live
          /\ m.ordKeys[m.keys[k] + 1] = k
     /\ \A j \in live :
          Cardinality({ k \in DOMAIN m.keys : m.keys[k] = j }) = 1
     /\ Cardinality(DOMAIN m.keys) = Cardinality(live)

\* the same of a StrMap, whose slots hold the key next to the value
StrMapWellIndexed(m) ==
  LET live == { j \in 0..(Len(m.values) - 1) : m.values[j + 1].value # gDeletedEntry }
  IN /\ \A k \in DOMAIN m.keys :
          /\ m.keys[k] \in live
          /\ m.values[m.keys[k] + 1].key = k
     /\ \A j \in live :
          Cardinality({ k \in DOMAIN m.keys : m.keys[k] = j }) = 1
     /\ Cardinality(DOMAIN m.keys) = Cardinality(live)

\* every Map of the heap
AllWellIndexed(h) == \A d \in DocIds(h) : ~IsArray(h, d) => WellIndexed(h, d)

\* the Maps that Parse builds from the texts
ParsedWellIndexed == \A data \in Texts : AllWellIndexed(Parse(<<>>, data).h)

\* C32: in every reachable state the index of a Map, and of a StrMap, and its
\* live slots match one to one: after Set, Delete, Clear and compaction,
\* outside and inside an iteration, and in what Clone and Parse build.
C32_IndexMatchesLiveSlots ==
  /\ AllWellIndexed(docs)
  /\ sm.alive => StrMapWellIndexed(sm)
  /\ \A d \in DocIds(docs) : AllWellIndexed(Clone(docs, d).h)
  /\ ParsedWellIndexed

\* a callback of an iteration is running on a Map of few slots that has a
\* tombstone next to a live entry
C32_Witness ==
  \E a \in 1..Len(iters) :
    LET f == iters[a] IN
    /\ f.kind # "StrMap"
    /\ ~IsArray(docs, f.d)
    /\ Len(docs[f.d].values) < PadSlots
    /\ Len(docs[f.d].values) > Cardinality(DOMAIN docs[f.d].keys)
    /\ Cardinality(DOMAIN docs[f.d].keys) > 0
    /\ WellIndexed(docs, f.d)

(***************************************************************************)
(* C33                                                                     *)
(***************************************************************************)
\* what a caller can see of the Map d: its keys in the order Iterate and Keys
\* report them, the value next to each, Len, what Fetch and Has give for every
\* key tried, and the text
Observed(h, d) ==
  [keys |-> Keys(h, d),
   values |-> [j \in 1..Len(LiveSlots(h[d])) |-> h[d].values[LiveSlots(h[d])[j]]],
   len |-> Len_(h, d),
   fetch |-> [k \in PackKeys |-> <<Fetch(h, d, k).v, Fetch(h, d, k).ok>>],
   has |-> [k \in PackKeys |-> Has(h, d, k).ok],
   text |-> JSONLine(h, d)]

\* the same of a StrMap
StrMapObserved(m) ==
  [keys |-> StrMapKeys(m),
   values |-> [j \in 1..Len(StrMapLive(m)) |-> m.values[StrMapLive(m)[j]].value],
   len |-> StrMapLen(m),
   get |-> [k \in PackKeys |-> StrMapGet(m, k)],
   has |-> [k \in PackKeys |-> StrMapHas(m, k)]]

\* C33: a compaction pass on a Map, and on a StrMap, leaves no tombstone and
\* changes nothing a caller can see: the keys and values in iteration order,
\* Len, Fetch and Has of every key and the text are what they were, and every
\* Set and Delete made after the pass leaves what the same call leaves when
\* made without it.
C33_CompactionInvisible ==
  /\ \A d \in DocIds(docs) : ~IsArray(docs, d) =>
       LET h1 == packing(docs, d) IN
       h1 # docs =>
         /\ Observed(h1, d) = Observed(docs, d)
         /\ Len(h1[d].values) = Len_(docs, d)
         /\ \A x \in DocIds(docs) : x # d => h1[x] = docs[x]
         /\ \A k \in PackKeys :
              /\ Observed(Delete(h1, d, k).h, d) = Observed(Delete(docs, d, k).h, d)
              /\ \A v \in Scalars :
                   Observed(Set(h1, d, k, v), d) = Observed(Set(docs, d, k, v), d)
  /\ sm.alive =>
       LET m1 == StrMapPacking(sm) IN
       m1 # sm =>
         /\ StrMapObserved(m1) = StrMapObserved(sm)
         /\ Len(m1.values) = StrMapLen(sm)
         /\ \A k \in PackKeys :
              /\ StrMapObserved(StrMapDelete(m1, k)) = StrMapObserved(StrMapDelete(sm, k))
              /\ \A v \in Scalars :
                   StrMapObserved(StrMapSet(m1, k, v)) = StrMapObserved(StrMapSet(sm, k, v))

\* no iteration is running on a Map with two live entries or more and so many
\* tombstones that a compaction pass acts on it
C33_Witness ==
  \E d \in DocIds(docs) :
    /\ ~IsArray(docs, d)
    /\ Len_(docs, d) >= 2
    /\ packing(docs, d) # docs
    /\ Keys(packing(docs, d), d) = Keys(docs, d)

(***************************************************************************)
(* C34                                                                     *)
(***************************************************************************)
\* Iterate and EachPair on the frozen Map d call back for every live slot in
\* order and for nothing else, stop after a callback that returns false, and
\* leave the heap as it was, the counter of d included; a compaction pass on d
\* does nothing
FrozenIterates(h, d) ==
  LET live == LiveSlots(h[d])
      e == IterateEnter(h, d)
  IN /\ e = [h |-> h, dec |-> FALSE]
     /\ \A k \in 0..(Len(live) + 1) :
          LET r == IterateRun(h, d, k)
              n == IF k + 1 < Len(live) THEN k + 1 ELSE Len(live)
          IN /\ r.h = h
             /\ r.slots = [j \in 1..n |-> live[j] - 1]
     /\ EachPairExit(e.h, d, e.dec) = h
     /\ packing(h, d) = h

\* a frozen Map with one live entry behind as many tombstones as the
\* compaction threshold
FrozenDue ==
  Freeze(Set(<<TombstonedMap(PackMinSlots, <<"a">>)>>, 1, <<"b">>, VInt(1)), 1)

\* C34: on a frozen Map, Iterate and EachPair visit every live entry in order
\* and leave the iteration counter, the backing sequence and the index as
\* they were, and a compaction pass does nothing, also when the tombstones
\* are past the threshold.
C34_FrozenNeverCompacts ==
  /\ \A d \in DocIds(docs) :
       (~IsArray(docs, d) /\ IsFrozen(docs, d)) => FrozenIterates(docs, d)
  /\ IsFrozen(FrozenDue, 1)
  /\ Len(FrozenDue[1].values) = PackMinSlots + 1
  /\ FrozenIterates(FrozenDue, 1)

\* the callback of an iteration is running on a frozen Map, and the iteration
\* did not count itself
C34_Witness ==
  \E a \in 1..Len(iters) :
    /\ iters[a].kind \in { "Iterate", "EachPair" }
    /\ ~IsArray(docs, iters[a].d)
    /\ IsFrozen(docs, iters[a].d)
    /\ ~iters[a].dec
    /\ docs[iters[a].d].iterCounter = FrozenCounter

(***************************************************************************)
(* C35                                                                     *)
(***************************************************************************)
\* the path segments the rule for a new level is tried on
Segments35 ==
  { <<>>, <<"0">>, <<"7">>, <<"0", "0">>, <<"a">>, <<"1", "a">>, <<"a", "1">>,
    <<"0", "0", "0", "0", "0", "0", "0", "0", "7">>,
    <<"0", "0", "0", "0", "0", "0", "0", "0", "0", "7">>,
    <<"1", "2", "3", "4", "5", "6", "7", "8", "9", "0">> }

\* the decimal text of a non-negative integer: digits only, one at least
DecimalText(s) == Len(s) > 0 /\ \A j \in 1..Len(s) : s[j] \in Digits

\* a decimal text of at most nine digits
ShortDecimalText(s) == DecimalText(s) /\ Len(s) < 10

\* Set on d with a path whose first segment "0" holds no document and whose
\* next segment is seg makes a new level under "0", an Array exactly when
\* IsIndex(seg); and seg is a position of an Array d exactly when IsIndex(seg)
LevelRule(h, d, seg, IsIndex(_)) ==
  /\ \A rest \in { seg, seg \o <<"/", "b">> } :
       LET h2 == Set(h, d, <<"0", "/">> \o rest, VInt(1))
           child == get(h2, d, <<"0">>)
       IN /\ child.ok
          /\ child.v = VDoc(Len(h) + 1)
          /\ IsArray(h2, Len(h) + 1) <=> IsIndex(seg)
  /\ IsArray(h, d) =>
       LET r == set(h, d, seg, VInt(1))
       IN IF IsIndex(seg)
          THEN /\ ~r.err
               /\ r.h[d].values[DigitsValue(seg, 0) + 1] = VInt(1)
               /\ get(r.h, d, seg) = [v |-> VInt(1), ok |-> TRUE]
          ELSE /\ r.err
               /\ r.h = h
               /\ ~get(h, d, seg).ok

\* the rule on every unfrozen document whose "0" holds no document
LevelRuleHolds(IsIndex(_)) ==
  \A d \in DocIds(docs) :
    (~IsFrozen(docs, d) /\ ~IsDoc(get(docs, d, <<"0">>).v)) =>
      \A seg \in Segments35 : LevelRule(docs, d, seg, IsIndex)

\* C35 (as stated): a missing level is created as an Array exactly when the
\* next path segment is a non-empty string of digits of any length, and as a
\* Map otherwise; the same rule decides whether a key is a position of an
\* Array.
C35_Original == LevelRuleHolds(DecimalText)

\* C35 (amended): a missing level is created as an Array exactly when the next
\* path segment is a string of one to nine digits, and as a Map otherwise; the
\* same rule decides whether a key is a position of an Array.
C35_LevelFromNextSegment == LevelRuleHolds(ShortDecimalText)

\* Set has made an Array under "a" of a Map for its next segment "0", and a
\* Map under index 0 of that Array for its next segment "b"
C35_Witness ==
  \E d \in DocIds(docs) :
    /\ last = "call"
    /\ ~IsArray(docs, d)
    /\ IsDoc(get(docs, d, <<"a">>).v)
    /\ LET x == get(docs, d, <<"a">>).v.n
       IN /\ IsArray(docs, x)
          /\ IsDoc(get(docs, x, <<"0">>).v)
          /\ ~IsArray(docs, get(docs, x, <<"0">>).v.n)
          /\ get(docs, get(docs, x, <<"0">>).v.n, <<"b">>).ok

(***************************************************************************)
(* C36                                                                     *)
(***************************************************************************)
\* the byte at index i (0-based) of s is one that a scan byte by byte stops at
NeedsEscape(s, i, escapeHTML) ==
  LET c == Byte(s[i + 1])
  IN \/ c < 32
     \/ c > 127
     \/ s[i + 1] \in { "\"", "\\" }
     \/ escapeHTML /\ s[i + 1] \in { "<", ">", "&" }

\* the index of the first such byte of s, or -1
ByteScan(s, escapeHTML) ==
  IF \E i \in 0..(Len(s) - 1) : NeedsEscape(s, i, escapeHTML)
  THEN CHOOSE i \in 0..(Len(s) - 1) :
         /\ NeedsEscape(s, i, escapeHTML)
         /\ \A m \in 0..(i - 1) : ~NeedsEscape(s, m, escapeHTML)
  ELSE 0 - 1

\* the keys of the Maps of the heap
StoredKeys == UNION { DOMAIN docs[d].keys : d \in DocIds(docs) }

\* C36: for every string s and both values of escapeHTML, escapeIndex(s,
\* escapeHTML) is the index of the first byte of s that is below 0x20, above
\* 0x7f, a double quote, a backslash or (with escapeHTML) one of <, >, &, and
\* -1 when s has no such byte; it is never an index before that byte.
C36_ScanAgrees ==
  \A s \in StoredKeys, escapeHTML \in BOOLEAN :
    escapeIndex(s, escapeHTML) = ByteScan(s, escapeHTML)

(***************************************************************************)
(* C37                                                                     *)
(***************************************************************************)
\* the number of Iterate and EachPair calls in progress on d
ActiveIterations(d) ==
  Cardinality({ a \in 1..Len(iters) :
                  iters[a].kind \in { "Iterate", "EachPair" } /\ iters[a].d = d })

\* the number of StrMap.Iterate calls in progress
ActiveStrMapIterations ==
  Cardinality({ a \in 1..Len(iters) : iters[a].kind = "StrMap" })

\* C37: the iteration counter of an unfrozen Map is the number of Iterate and
\* EachPair calls in progress on it (0 when there is none, never negative):
\* a call raises it by one on entry and leaves it as it found it on every
\* exit, after a normal end and after an early stop by the callback, nested
\* calls included; the same holds for StrMap.Iterate.
C37_CounterCountsIterations ==
  /\ \A d \in DocIds(docs) :
       (~IsArray(docs, d) /\ ~IsFrozen(docs, d)) =>
         /\ docs[d].iterCounter = ActiveIterations(d)
         /\ IterateEnter(docs, d).dec
         /\ IterateEnter(docs, d).h[d].iterCounter = docs[d].iterCounter + 1
         /\ \A k \in 0..2 :
              IterateRun(docs, d, k).h[d].iterCounter = docs[d].iterCounter
  /\ sm.alive => sm.iterCounter = ActiveStrMapIterations

\* two calls of Iterate, one inside the callback of the other, are in
\* progress on the same unfrozen Map
C37_Witness ==
  \E a, b \in 1..Len(iters) :
    /\ a < b
    /\ iters[a].kind = "Iterate"
    /\ iters[b].kind = "Iterate"
    /\ iters[a].d = iters[b].d
    /\ ~IsFrozen(docs, iters[a].d)
    /\ docs[iters[a].d].iterCounter = 2

(***************************************************************************)
(* C38                                                                     *)
(***************************************************************************)
\* C38: MapI(i) returns a Map for every receiver that is not nil: on an Array
\* the Map stored at index i, made if needed, and on a Map receiver the
\* document it returns and stores under the decimal text of i is a Map as
\* well (IsArray() is false).
C38_MapIReturnsMap ==
  \A d \in DocIds(docs), i \in CreateIndexes :
    LET r == MapI(docs, d, i)
    IN /\ ~r.panic
       /\ r.d # NilDoc
       /\ ~IsArray(r.h, r.d)
       /\ ~IsFrozen(docs, d) => get(r.h, d, Sprint(i)) = [v |-> VDoc(r.d), ok |-> TRUE]

(***************************************************************************)
(* C39                                                                     *)
(***************************************************************************)
\* the indexes the readers are tried with: negative ones, ones inside every
\* array of these specifications and ones past its end
ReadIndexes == (0 - 2)..(MaxSlots + 1)

\* C39: for every integer i, negative or at or past the length, GetI(i) and
\* NestedI(i) return nil and do not panic, and ArrayI(i) and MapI(i) with a
\* negative i leave the array unchanged.
C39_IndexReadersNeverFail ==
  \A d \in DocIds(docs), i \in ReadIndexes :
    /\ (i < 0 \/ i >= Len_(docs, d)) =>
         /\ GetI(docs, d, i) = [v |-> VNil, panic |-> FALSE]
         /\ NestedI(docs, d, i) = [d |-> NilDoc, panic |-> FALSE]
    /\ (i < 0 /\ IsArray(docs, d)) =>
         /\ ArrayI(docs, d, i).h[d] = docs[d]
         /\ MapI(docs, d, i).h[d] = docs[d]

====
